---- MODULE Spec2Model ----
(***************************************************************************)
(* Content lifecycle of the news backend: article status and view          *)
(* tracking, newsletter subscribers and campaign dispatch.                 *)
(*                                                                         *)
(* The entity store is the relational database behind the Django ORM.      *)
(* Every ORM call (get_object, get_or_create's get / create / get,         *)
(* save, queryset.update, exists, count) is one atomic step on the store;  *)
(* a request handler is a sequence of such steps taken by one worker, and  *)
(* workers interleave between steps.  A model instance loaded by           *)
(* get_object is a private copy of the row (inst[p]); save() writes the    *)
(* copy back, all columns or only update_fields.                           *)
(***************************************************************************)
EXTENDS Integers, Sequences, FiniteSets, TLC

\* ------------------------------------------------------------------ bounds
NumProcs == 2
MaxTime == 2
MaxArticles == 3
MaxViews == 2
MaxShelf == 2
MaxWords == 501
MaxOver == 1

Procs == 1..NumProcs
Subs == {"n1", "n2"}
Articles == {"a1"}
Campaigns == {"c1"}
Sessions == {"s1", "s2"}
Metas == {"ua1", "ua2"}

\* ------------------------------------------------------------- vocabulary
STATUS_CHOICES == {"draft", "review", "published", "archived"}
CAMPAIGN_STATUS == {"draft", "scheduled", "sent"}

\* A nullable DateTimeField: <<>> is NULL, <<t>> is the time t.
NullTime == <<>>
At(t) == <<t>>
IsNull(v) == v = <<>>

\* A field absent from the request payload.
Absent == "absent"

\* request.user: a registered author, another one, a staff member, or the
\* anonymous user.
Users == {"u1", "u2", "staff"}
Anonymous == "anon"
Requesters == Users \cup {Anonymous}
IsAuthenticated(u) == u # Anonymous
IsStaff(u) == u = "staff"

\* A nullable field of the payload: not supplied, or supplied with a value.
NotGiven == <<>>
Given(v) == <<v>>

VARIABLES
  article,      \* Article rows: id -> [status, published_at, views_count]
  articleViews, \* ArticleView rows: set of [id, article, session_key, meta]
  newsletter,   \* Newsletter rows: id -> [is_active, confirmed_at, unsubscribed_at]
  campaign,     \* NewsletterCampaign rows: id -> [status, scheduled_at, sent_at, sent_count]
  now,          \* timezone.now()
  pc,           \* worker -> position in its handler
  req,          \* worker -> the request it serves
  inst,         \* worker -> the model instance it loaded
  resp,         \* worker -> the response it gave
  events,       \* worker -> what happened while it ran (history)
  first,        \* (article, session) -> the first worker that recorded a view (history)
  ever,         \* article -> it has had status published (history)
  created,      \* Article rows inserted by POST /articles/, in id order
  category,     \* Category rows: id -> [is_active]
  text,         \* the text columns of the article written at the text desk
  tag,          \* Tag rows in id order
  author        \* Author rows in id order

vars == <<article, articleViews, newsletter, campaign, now,
          pc, req, inst, resp, events, first, ever, created, category, text, tag, author>>

storeVars == <<article, articleViews, newsletter, campaign>>
procVars == <<pc, req, inst, resp, events>>

NoReq == [kind |-> "none", target |-> "none", session |-> "none",
          meta |-> "none", status |-> Absent, published_at |-> NotGiven,
          user |-> "none", id |-> 0, title |-> NotGiven,
          is_featured |-> FALSE, is_breaking |-> FALSE, days |-> 0, limit |-> 0,
          scheduled_at |-> NotGiven, content |-> NotGiven, excerpt |-> NotGiven,
          meta_title |-> NotGiven, meta_description |-> NotGiven,
          q |-> NotGiven, type |-> NotGiven]
NoInst == [none |-> TRUE]

\* No article has been written at the text desk yet.
NoText == [none |-> TRUE]
NoResp == [code |-> 0, error |-> "", body |-> <<>>]
Ok == [code |-> 200, error |-> "", body |-> <<>>]
Created == [code |-> 201, error |-> "", body |-> <<>>]
NoContent == [code |-> 204, error |-> "", body |-> <<>>]
Forbidden == [code |-> 403, error |-> "permission", body |-> <<>>]
NotFound == [code |-> 404, error |-> "not found", body |-> <<>>]
BadRequest(e) == [code |-> 400, error |-> e, body |-> <<>>]
ServerError(e) == [code |-> 500, error |-> e, body |-> <<>>]
\* A 200 response that carries serialized articles.
OkWith(rows) == [code |-> 200, error |-> "", body |-> rows]

\* Article.views_count default (models.py:124), NewsletterCampaign defaults.
NewArticle(s, t) == [status |-> s, published_at |-> t, views_count |-> 0]
NewCampaign == [status |-> "draft", scheduled_at |-> NullTime,
                sent_at |-> NullTime, sent_count |-> 0]
NewNewsletter == [is_active |-> TRUE, confirmed_at |-> NullTime,
                  unsubscribed_at |-> NullTime]

\* Before the first request: one draft article never viewed, a draft
\* campaign, subscriber n1 confirmed and subscriber n2 not yet.
Init ==
  /\ article = [a \in Articles |-> NewArticle("draft", NullTime)]
  /\ articleViews = {}
  /\ newsletter = [s \in Subs |->
                     IF s = "n1" THEN [NewNewsletter EXCEPT !.confirmed_at = At(1)]
                     ELSE NewNewsletter]
  /\ campaign = [c \in Campaigns |-> NewCampaign]
  /\ now = 1
  /\ pc = [p \in Procs |-> "idle"]
  /\ req = [p \in Procs |-> NoReq]
  /\ inst = [p \in Procs |-> NoInst]
  /\ resp = [p \in Procs |-> NoResp]
  /\ events = [p \in Procs |-> {}]
  /\ first = [k \in Articles \X Sessions |-> 0]
  /\ ever = [a \in Articles |-> FALSE]
  /\ created = <<>>
  /\ category = [k \in {"k1"} |-> [is_active |-> TRUE]]
  /\ text = NoText
  /\ tag = <<>>
  /\ author = <<>>

\* ------------------------------------------------------------ worker steps
\* A worker takes a request: get_object() loads the row into inst[p].
Begin(p, r, row, next) ==
  /\ pc[p] = "idle"
  /\ req' = [req EXCEPT ![p] = r]
  /\ inst' = [inst EXCEPT ![p] = row]
  /\ pc' = [pc EXCEPT ![p] = next]

\* A worker answers and is finished.
Reply(p, r) ==
  /\ resp' = [resp EXCEPT ![p] = r]
  /\ pc' = [pc EXCEPT ![p] = "done"]

\* The loaded instance dies with the request.
Drop(p) == inst' = [inst EXCEPT ![p] = NoInst]

Note(p, e) == events' = [events EXCEPT ![p] = @ \cup {e}]

\* ------------------------------------------------------------ view tracker
ViewRowsAnySession(a, s) == {v \in articleViews : v.article = a}

ViewRows(a, s) == {v \in articleViews : v.article = a /\ v.session_key = s}

NextViewId == Cardinality(articleViews) + 1

\* article.views_count += 1
IncrementedViews(row) == row.views_count + 1

ShouldTrackAny(instance) == TRUE

\* if instance.status == 'published':
ShouldTrack(instance) == instance.status = "published"

\* ArticleViewSet.retrieve: get_object, then track only a published article.
Retrieve(p) ==
  \E a \in Articles, s \in Sessions, m \in Metas :
    LET r == [NoReq EXCEPT !.kind = "retrieve", !.target = a,
                           !.session = s, !.meta = m]
    IN  /\ IF ShouldTrack(article[a])
           THEN /\ Begin(p, r, article[a], "goc_get")
                /\ resp' = resp
                /\ first' = IF first[<<a, s>>] = 0
                            THEN [first EXCEPT ![<<a, s>>] = p] ELSE first
           ELSE /\ pc[p] = "idle"
                /\ req' = [req EXCEPT ![p] = r]
                /\ inst' = inst
                /\ Reply(p, Ok)
                /\ first' = first
        /\ UNCHANGED <<storeVars, now, events, ever, created, category, text, tag, author>>

\* get_or_create, first query: self.get(article=..., session_key=...).
GocGet(p) ==
  /\ pc[p] = "goc_get"
  /\ IF ViewRows(req[p].target, req[p].session) # {}
     THEN /\ pc' = [pc EXCEPT ![p] = "save_views"]
          /\ events' = events
     ELSE /\ pc' = [pc EXCEPT ![p] = "goc_create"]
          /\ Note(p, "miss")
  /\ UNCHANGED <<storeVars, now, req, inst, resp, first, ever, created, category, text, tag, author>>

\* get_or_create, the insert: unique_together rejects a second row.
GocCreate(p) ==
  /\ pc[p] = "goc_create"
  /\ IF ViewRows(req[p].target, req[p].session) = {}
     THEN /\ articleViews' = articleViews \cup
               {[id |-> NextViewId, article |-> req[p].target,
                 session_key |-> req[p].session, meta |-> req[p].meta]}
          /\ pc' = [pc EXCEPT ![p] = "save_views"]
          /\ Note(p, "created")
     ELSE /\ articleViews' = articleViews
          /\ pc' = [pc EXCEPT ![p] = "goc_reget"]
          /\ Note(p, "conflict")
  /\ UNCHANGED <<article, newsletter, campaign, now, req, inst, resp, first, ever, created, category, text, tag, author>>

GocRegetRaises(p) ==
  /\ pc[p] = "goc_reget"
  /\ Reply(p, ServerError("IntegrityError"))
  /\ Drop(p)
  /\ UNCHANGED <<storeVars, now, req, events, first, ever, created, category, text, tag, author>>

\* get_or_create after IntegrityError: self.get() again, re-raise if gone.
GocReget(p) ==
  /\ pc[p] = "goc_reget"
  /\ IF ViewRows(req[p].target, req[p].session) # {}
     THEN /\ pc' = [pc EXCEPT ![p] = "save_views"]
          /\ resp' = resp
          /\ inst' = inst
     ELSE /\ Reply(p, ServerError("IntegrityError"))
          /\ Drop(p)
  /\ UNCHANGED <<storeVars, now, req, events, first, ever, created, category, text, tag, author>>

\* article.views_count += 1; article.save(update_fields=['views_count'])
SaveViews(p) ==
  /\ pc[p] = "save_views"
  /\ article' = [article EXCEPT
                   ![req[p].target].views_count = IncrementedViews(inst[p])]
  /\ Drop(p)
  /\ Note(p, "saved")
  /\ Reply(p, Ok)
  /\ UNCHANGED <<articleViews, newsletter, campaign, now, req, first, ever, created, category, text, tag, author>>

\* ArticleViewSet.increment_views: get_object, then the same increment.
IncrementViews(p) ==
  \E a \in Articles :
    /\ Begin(p, [NoReq EXCEPT !.kind = "increment_views", !.target = a],
             article[a], "save_views")
    /\ UNCHANGED <<storeVars, now, resp, events, first, ever, created, category, text, tag, author>>

\* ------------------------------------------------- publication state machine
\* ArticleViewSet.get_serializer_class for update and partial_update.
UpdateSerializerClass == "ArticleUpdateSerializer"

\* validate_status exists on ArticleCreateUpdateSerializer only.
ValidateStatus(cls, instance, value) ==
  IF cls = "ArticleCreateUpdateSerializer"
  THEN ~(instance.status = "published" /\ value = "draft")
  ELSE TRUE

\* ModelSerializer.update: setattr for every validated field.
SetStatus(instance, value) ==
  IF value = Absent THEN instance ELSE [instance EXCEPT !.status = value]

SetPublishedAt(instance, value) ==
  IF value = NotGiven THEN instance
  ELSE [instance EXCEPT !.published_at = value[1]]

\* The published_at values a client can put in a payload.
PublishedAtPayloads ==
  {NotGiven, Given(NullTime)} \cup {Given(At(t)) : t \in 1..MaxTime}

\* PUT / PATCH /articles/{id}/: get_object.  T is the set of published_at
\* payloads the clients send.
ApiUpdateWith(p, T) ==
  \E a \in Articles, s \in STATUS_CHOICES \cup {Absent}, t \in T :
    /\ Begin(p, [NoReq EXCEPT !.kind = "update", !.target = a, !.status = s,
                              !.published_at = t],
             article[a], "update_save")
    /\ UNCHANGED <<storeVars, now, resp, events, first, ever, created, category, text, tag, author>>

\* Clients that never send published_at.
ApiUpdate(p) == ApiUpdateWith(p, {NotGiven})

\* serializer.is_valid(), then serializer.save(): instance.save() writes
\* every column of the loaded instance.
UpdateSave(p) ==
  /\ pc[p] = "update_save"
  /\ IF req[p].status = Absent
        \/ ValidateStatus(UpdateSerializerClass, inst[p], req[p].status)
     THEN /\ article' = [article EXCEPT
                           ![req[p].target] =
                             SetPublishedAt(SetStatus(inst[p], req[p].status),
                                            req[p].published_at)]
          /\ ever' = [ever EXCEPT ![req[p].target] =
                                    @ \/ article'[req[p].target].status = "published"]
          /\ Reply(p, Ok)
     ELSE /\ Reply(p, BadRequest("status"))
          /\ UNCHANGED <<article, ever>>
  /\ Drop(p)
  /\ UNCHANGED <<articleViews, newsletter, campaign, now, req, events, first, created, category, text, tag, author>>

\* ArticleAdmin.make_draft: queryset.update(status='draft').
MakeDraft(row) == [row EXCEPT !.status = "draft"]

AdminMakeDraft ==
  \E sel \in SUBSET Articles \ {{}} :
    /\ article' = [a \in Articles |->
                     IF a \in sel THEN MakeDraft(article[a]) ELSE article[a]]
    /\ UNCHANGED <<articleViews, newsletter, campaign, now, procVars, first, ever, created, category, text, tag, author>>

\* ArticleAdmin.make_published:
\* queryset.update(status='published', published_at=timezone.now()).
AdminMakePublished ==
  \E sel \in SUBSET Articles \ {{}} :
    /\ article' = [a \in Articles |->
                     IF a \in sel
                     THEN [article[a] EXCEPT !.status = "published",
                                             !.published_at = At(now)]
                     ELSE article[a]]
    /\ ever' = [a \in Articles |-> ever[a] \/ a \in sel]
    /\ UNCHANGED <<articleViews, newsletter, campaign, now, procVars, first, created, category, text, tag, author>>

\* ------------------------------------------------------ article requests
ArticleStep(p) ==
  \/ Retrieve(p)
  \/ GocGet(p)
  \/ GocCreate(p)
  \/ GocReget(p)
  \/ SaveViews(p)
  \/ IncrementViews(p)
  \/ ApiUpdate(p)
  \/ UpdateSave(p)

ArticleAdminStep == AdminMakeDraft \/ AdminMakePublished

\* No request is being served.
Quiet == \A p \in Procs : pc[p] \in {"idle", "done"}

\* Requests served by concurrent workers.
ArticleNext == (\E p \in Procs : ArticleStep(p)) \/ ArticleAdminStep

SpecArticle == Init /\ [][ArticleNext]_vars

\* Requests served one after another: a request starts only when no other
\* is being served.
ArticleNextSeq ==
  \/ \E p \in Procs : ArticleStep(p) /\ (pc[p] = "idle" => Quiet)
  \/ Quiet /\ ArticleAdminStep

SpecArticleSeq == Init /\ [][ArticleNextSeq]_vars

\* ------------------------------------------------- newsletter subscribers
\* Newsletter.objects.filter(is_active=True, confirmed_at__isnull=False)
Recipients ==
  {s \in DOMAIN newsletter :
     newsletter[s].is_active /\ ~IsNull(newsletter[s].confirmed_at)}

NotConfirmedEver(instance) == TRUE

\* if not newsletter.confirmed_at:
NotConfirmed(instance) == IsNull(instance.confirmed_at)

\* NewsletterViewSet.confirm by user u (permission_classes=[]): get_object;
\* confirmed_at is set only if unset.
ConfirmBy(p, u) ==
  \E s \in DOMAIN newsletter :
    LET r == [NoReq EXCEPT !.kind = "confirm", !.target = s, !.user = u]
    IN  /\ IF NotConfirmed(newsletter[s])
           THEN /\ Begin(p, r, [newsletter[s] EXCEPT !.confirmed_at = At(now)],
                         "newsletter_save")
                /\ resp' = resp
           ELSE /\ pc[p] = "idle"
                /\ req' = [req EXCEPT ![p] = r]
                /\ inst' = inst
                /\ Reply(p, Ok)
        /\ UNCHANGED <<storeVars, now, events, first, ever, created, category, text, tag, author>>

\* The subscriber follows the link of the mail, not logged in.
Confirm(p) == ConfirmBy(p, Anonymous)

\* NewsletterViewSet.unsubscribe by user u (permission_classes=[]):
\* get_object, then the fields are set.
UnsubscribeBy(p, u) ==
  \E s \in DOMAIN newsletter :
    /\ Begin(p, [NoReq EXCEPT !.kind = "unsubscribe", !.target = s, !.user = u],
             [newsletter[s] EXCEPT !.is_active = FALSE,
                                   !.unsubscribed_at = At(now)],
             "newsletter_save")
    /\ UNCHANGED <<storeVars, now, resp, events, first, ever, created, category, text, tag, author>>

Unsubscribe(p) == UnsubscribeBy(p, Anonymous)

\* NewsletterViewSet.resubscribe by user u (permission_classes=[]).
ResubscribeBy(p, u) ==
  \E s \in DOMAIN newsletter :
    /\ Begin(p, [NoReq EXCEPT !.kind = "resubscribe", !.target = s, !.user = u],
             [newsletter[s] EXCEPT !.is_active = TRUE,
                                   !.unsubscribed_at = NullTime],
             "newsletter_save")
    /\ UNCHANGED <<storeVars, now, resp, events, first, ever, created, category, text, tag, author>>

Resubscribe(p) == ResubscribeBy(p, Anonymous)

\* newsletter.save(): every column of the loaded instance is written.
NewsletterSave(p) ==
  /\ pc[p] = "newsletter_save"
  /\ newsletter' = [newsletter EXCEPT ![req[p].target] = inst[p]]
  /\ Reply(p, Ok)
  /\ Drop(p)
  /\ UNCHANGED <<article, articleViews, campaign, now, req, events, first, ever, created, category, text, tag, author>>

\* ----------------------------------------------------- campaign dispatcher
AlreadySentNever(instance) == FALSE

\* if campaign.status == 'sent'
AlreadySent(instance) == instance.status = "sent"

StaffMayWriteAnyone(u) == TRUE

\* permission_classes = [IsAuthenticated, IsStaffOrReadOnly] of the campaigns
\* and [IsStaffOrReadOnly] of the categories, for an unsafe method.
StaffMayWrite(u) == IsAuthenticated(u) /\ IsStaff(u)

\* NewsletterCampaignViewSet.send by user u: the permissions, get_object
\* and the status check.
SendBy(p, u) ==
  \E c \in DOMAIN campaign :
    LET r == [NoReq EXCEPT !.kind = "send", !.target = c, !.user = u]
    IN  /\ IF ~StaffMayWrite(u) \/ AlreadySent(campaign[c])
           THEN /\ pc[p] = "idle"
                /\ req' = [req EXCEPT ![p] = r]
                /\ inst' = inst
                /\ Reply(p, IF ~StaffMayWrite(u) THEN Forbidden
                            ELSE BadRequest("already sent"))
           ELSE /\ Begin(p, r, campaign[c], "send_exists")
                /\ resp' = resp
        /\ UNCHANGED <<storeVars, now, events, first, ever, created, category, text, tag, author>>

\* The campaigns are run by staff.
Send(p) == SendBy(p, "staff")

\* if not subscribers.exists()
SendExists(p) ==
  /\ pc[p] = "send_exists"
  /\ IF Recipients = {}
     THEN /\ Reply(p, BadRequest("no subscribers"))
          /\ Drop(p)
     ELSE /\ pc' = [pc EXCEPT ![p] = "send_count"]
          /\ UNCHANGED <<resp, inst>>
  /\ UNCHANGED <<storeVars, now, req, events, first, ever, created, category, text, tag, author>>

\* status, sent_at = timezone.now() and sent_count = <queryset>.count()
\* are set on the loaded instance.
MarkSent(instance) ==
  [instance EXCEPT !.status = "sent", !.sent_at = At(now),
                   !.sent_count = Cardinality(Recipients)]

SendCount(p) ==
  /\ pc[p] = "send_count"
  /\ inst' = [inst EXCEPT ![p] = MarkSent(inst[p])]
  /\ pc' = [pc EXCEPT ![p] = "campaign_save"]
  /\ UNCHANGED <<storeVars, now, req, resp, events, first, ever, created, category, text, tag, author>>

\* campaign.save(): every column of the loaded instance is written.
CampaignSave(p) ==
  /\ pc[p] = "campaign_save"
  /\ campaign' = [campaign EXCEPT ![req[p].target] = inst[p]]
  /\ Reply(p, Ok)
  /\ Drop(p)
  /\ UNCHANGED <<article, articleViews, newsletter, now, req, events, first, ever, created, category, text, tag, author>>

\* NewsletterCampaignAdmin.send_campaigns on a selection of one campaign:
\* the loop runs over queryset.filter(status__in=['draft', 'scheduled']).
AdminSend(p) ==
  \E c \in DOMAIN campaign :
    LET r == [NoReq EXCEPT !.kind = "admin_send", !.target = c]
    IN  /\ IF campaign[c].status \in {"draft", "scheduled"}
           THEN /\ Begin(p, r, campaign[c], "send_count")
                /\ resp' = resp
           ELSE /\ pc[p] = "idle"
                /\ req' = [req EXCEPT ![p] = r]
                /\ inst' = inst
                /\ Reply(p, Ok)
        /\ UNCHANGED <<storeVars, now, events, first, ever, created, category, text, tag, author>>

\* NewsletterCampaignViewSet.get_serializer_class for update, partial_update.
CampaignUpdateSerializerClass == "NewsletterCampaignCreateUpdateSerializer"

\* validate_status exists on NewsletterCampaignSerializer only.
ValidateCampaignStatus(cls, instance, value) ==
  IF cls = "NewsletterCampaignSerializer"
  THEN ~(instance.status = "sent" /\ value # "sent")
  ELSE TRUE

\* validate_scheduled_at exists on NewsletterCampaignSerializer only:
\* if value and value <= timezone.now(): raise ValidationError.
ValidateScheduledAt(cls, value, t) ==
  IF cls = "NewsletterCampaignSerializer"
  THEN value = NotGiven \/ IsNull(value[1]) \/ value[1][1] > t
  ELSE TRUE

SetScheduledAt(instance, value) ==
  IF value = NotGiven THEN instance
  ELSE [instance EXCEPT !.scheduled_at = value[1]]

\* The scheduled_at values a client can put in a payload.
ScheduledAtPayloads == {NotGiven} \cup {Given(At(t)) : t \in 1..MaxTime}

\* PUT / PATCH /campaigns/{id}/ by user u with a status of S and a
\* scheduled_at of T in the payload: the permissions, get_object.
CampaignUpdateWith(p, u, S, T) ==
  \E c \in DOMAIN campaign, s \in S, t \in T :
    LET r == [NoReq EXCEPT !.kind = "campaign_update", !.target = c,
                           !.status = s, !.user = u, !.scheduled_at = t]
    IN  /\ IF StaffMayWrite(u)
           THEN /\ Begin(p, r, campaign[c], "campaign_update_save")
                /\ resp' = resp
           ELSE /\ pc[p] = "idle"
                /\ req' = [req EXCEPT ![p] = r]
                /\ inst' = inst
                /\ Reply(p, Forbidden)
        /\ UNCHANGED <<storeVars, now, events, first, ever, created, category, text, tag, author>>

CampaignUpdateBy(p, u, S) == CampaignUpdateWith(p, u, S, {NotGiven})

CampaignUpdate(p) == CampaignUpdateBy(p, "staff", CAMPAIGN_STATUS \cup {Absent})

\* serializer.is_valid(), then ModelSerializer.update: instance.save().
CampaignUpdateSave(p) ==
  /\ pc[p] = "campaign_update_save"
  /\ IF ~ValidateScheduledAt(CampaignUpdateSerializerClass,
                             req[p].scheduled_at, now)
     THEN /\ Reply(p, BadRequest("scheduled_at"))
          /\ UNCHANGED campaign
     ELSE IF req[p].status = Absent
             \/ ValidateCampaignStatus(CampaignUpdateSerializerClass,
                                       inst[p], req[p].status)
          THEN /\ campaign' = [campaign EXCEPT
                                 ![req[p].target] =
                                   SetScheduledAt(SetStatus(inst[p], req[p].status),
                                                  req[p].scheduled_at)]
               /\ Reply(p, Ok)
          ELSE /\ Reply(p, BadRequest("status"))
               /\ UNCHANGED campaign
  /\ Drop(p)
  /\ UNCHANGED <<article, articleViews, newsletter, now, req, events, first, ever, created, category, text, tag, author>>

\* NewsletterCampaignAdmin.schedule_campaigns: queryset.filter(status='draft')
\* .update(status='scheduled', scheduled_at=now + 1 hour); the clock counts hours.
AdminSchedule ==
  \E sel \in SUBSET Campaigns \ {{}} :
    /\ campaign' = [c \in Campaigns |->
                      IF c \in sel /\ campaign[c].status = "draft"
                      THEN [campaign[c] EXCEPT !.status = "scheduled",
                                               !.scheduled_at = At(now + 1)]
                      ELSE campaign[c]]
    /\ UNCHANGED <<article, articleViews, newsletter, now, procVars, first, ever, created, category, text, tag, author>>

\* NewsletterCampaignAdmin.move_to_draft: queryset.update(status='draft').
AdminMoveToDraft ==
  \E sel \in SUBSET Campaigns \ {{}} :
    /\ campaign' = [c \in Campaigns |->
                      IF c \in sel THEN MakeDraft(campaign[c]) ELSE campaign[c]]
    /\ UNCHANGED <<article, articleViews, newsletter, now, procVars, first, ever, created, category, text, tag, author>>

\* Time passes.
Tick ==
  /\ now < MaxTime
  /\ now' = now + 1
  /\ UNCHANGED <<storeVars, procVars, first, ever, created, category, text, tag, author>>

\* ---------------------------------------- newsletter and campaign requests
CampaignStep(p) ==
  \/ Confirm(p)
  \/ Unsubscribe(p)
  \/ Resubscribe(p)
  \/ NewsletterSave(p)
  \/ Send(p)
  \/ SendExists(p)
  \/ SendCount(p)
  \/ CampaignSave(p)
  \/ AdminSend(p)
  \/ CampaignUpdate(p)
  \/ CampaignUpdateSave(p)

CampaignAdminStep == AdminSchedule \/ AdminMoveToDraft \/ Tick

CampaignNext == (\E p \in Procs : CampaignStep(p)) \/ CampaignAdminStep

SpecCampaign == Init /\ [][CampaignNext]_vars

\* The same concurrent workers within one instant of the clock.
DispatchNext ==
  (\E p \in Procs : CampaignStep(p)) \/ AdminSchedule \/ AdminMoveToDraft

SpecDispatch == Init /\ [][DispatchNext]_vars

CampaignNextSeq ==
  \/ \E p \in Procs : CampaignStep(p) /\ (pc[p] = "idle" => Quiet)
  \/ Quiet /\ CampaignAdminStep

SpecCampaignSeq == Init /\ [][CampaignNextSeq]_vars

\* ------------------------------------------------------------- staff desk
\* Rows that do not exist yet: the address of a new subscriber, a new
\* campaign, and the categories.
NewSubs == {"n3"}
Addresses == {"n1"} \cup NewSubs
NewCampaigns == {"c2"}
Categories == {"k1", "k2"}

\* A request of kind k by user u on row t is answered with r at once.
Answer(p, k, t, u, r) ==
  /\ pc[p] = "idle"
  /\ req' = [req EXCEPT ![p] = [NoReq EXCEPT !.kind = k, !.target = t, !.user = u]]
  /\ inst' = inst
  /\ Reply(p, r)

EmailNeverTaken(e) == FALSE

\* The UniqueValidator of the email field: Newsletter.objects.filter(email=e)
\* .exists().
EmailTaken(e) == e \in DOMAIN newsletter

\* POST /newsletter/subscribe/ (permission_classes=[]) and POST /newsletter/
\* (IsNewsletterOwner has no has_permission) by user u:
\* NewsletterCreateSerializer.is_valid with the unique check of the email.
SubscribeBy(p, u) ==
  \E e \in Addresses, k \in {"subscribe", "newsletter_create"} :
    /\ IF EmailTaken(e)
       THEN Answer(p, k, e, u, BadRequest("email"))
       ELSE /\ Begin(p, [NoReq EXCEPT !.kind = k, !.target = e, !.user = u],
                     NewNewsletter, "subscribe_insert")
            /\ resp' = resp
    /\ UNCHANGED <<storeVars, now, events, first, ever, created, category, text, tag, author>>

\* Newsletter.objects.create(**validated_data) under unique=True of the email.
SubscribeInsert(p) ==
  /\ pc[p] = "subscribe_insert"
  /\ IF req[p].target \in DOMAIN newsletter
     THEN /\ Reply(p, ServerError("IntegrityError"))
          /\ newsletter' = newsletter
     ELSE /\ newsletter' = newsletter @@ (req[p].target :> inst[p])
          /\ Reply(p, Created)
  /\ Drop(p)
  /\ UNCHANGED <<article, articleViews, campaign, now, req, events, first, ever, created, category, text, tag, author>>

\* IsNewsletterOwner.has_object_permission.
NewsletterMayWriteObject(u) == IsStaff(u)

\* PUT / PATCH /newsletter/{id}/ by user u with is_active false in the
\* payload.
NewsletterUpdateBy(p, u) ==
  \E s \in DOMAIN newsletter, v \in {FALSE} :
    /\ IF NewsletterMayWriteObject(u)
       THEN /\ Begin(p, [NoReq EXCEPT !.kind = "newsletter_update",
                                      !.target = s, !.user = u],
                     [newsletter[s] EXCEPT !.is_active = v], "newsletter_save")
            /\ resp' = resp
       ELSE Answer(p, "newsletter_update", s, u, Forbidden)
    /\ UNCHANGED <<storeVars, now, events, first, ever, created, category, text, tag, author>>

\* A function without the row of key k.
Without(f, k) == [x \in DOMAIN f \ {k} |-> f[x]]

\* DELETE /newsletter/{id}/ by user u.
NewsletterDeleteBy(p, u) ==
  \E s \in DOMAIN newsletter :
    /\ IF NewsletterMayWriteObject(u)
       THEN /\ Answer(p, "newsletter_delete", s, u, NoContent)
            /\ newsletter' = Without(newsletter, s)
       ELSE /\ Answer(p, "newsletter_delete", s, u, Forbidden)
            /\ newsletter' = newsletter
    /\ UNCHANGED <<article, articleViews, campaign, now, events, first, ever, created, category, text, tag, author>>

\* POST /campaigns/ by user u.
CampaignCreateWith(p, u, S, T) ==
  \E c \in NewCampaigns \ DOMAIN campaign, s \in S, t \in T :
    /\ pc[p] = "idle"
    /\ req' = [req EXCEPT ![p] = [NoReq EXCEPT !.kind = "campaign_create",
                                              !.target = c, !.user = u,
                                              !.status = s, !.scheduled_at = t]]
    /\ inst' = inst
    /\ IF ~StaffMayWrite(u)
       THEN Reply(p, Forbidden) /\ campaign' = campaign
       ELSE IF ~ValidateScheduledAt(CampaignUpdateSerializerClass, t, now)
            THEN Reply(p, BadRequest("scheduled_at")) /\ campaign' = campaign
            ELSE /\ Reply(p, Created)
                 /\ campaign' =
                      campaign @@ (c :> SetScheduledAt(SetStatus(NewCampaign, s), t))
    /\ UNCHANGED <<article, articleViews, newsletter, now, events, first, ever, created, category, text, tag, author>>

CampaignCreateBy(p, u) == CampaignCreateWith(p, u, {Absent}, {NotGiven})

\* DELETE /campaigns/{id}/ by user u.
CampaignDeleteBy(p, u) ==
  \E c \in DOMAIN campaign :
    /\ IF StaffMayWrite(u)
       THEN /\ Answer(p, "campaign_delete", c, u, NoContent)
            /\ campaign' = Without(campaign, c)
       ELSE /\ Answer(p, "campaign_delete", c, u, Forbidden)
            /\ campaign' = campaign
    /\ UNCHANGED <<article, articleViews, newsletter, now, events, first, ever, created, category, text, tag, author>>

\* CategoryViewSet.get_queryset: Category.objects.filter(is_active=True).
ActiveCategories == {k \in DOMAIN category : category[k].is_active}

\* POST /categories/ by user u.
CategoryCreateBy(p, u) ==
  \E k \in Categories \ DOMAIN category :
    /\ IF StaffMayWrite(u)
       THEN /\ Answer(p, "category_create", k, u, Created)
            /\ category' = category @@ (k :> [is_active |-> TRUE])
       ELSE /\ Answer(p, "category_create", k, u, Forbidden)
            /\ category' = category
    /\ UNCHANGED <<storeVars, now, events, first, ever, created, text, tag, author>>

\* PUT / PATCH /categories/{id}/ by user u with is_active false in the
\* payload: the permission, then get_object over the active categories.
CategoryUpdateBy(p, u) ==
  \E k \in DOMAIN category, v \in {FALSE} :
    /\ IF ~StaffMayWrite(u)
       THEN /\ Answer(p, "category_update", k, u, Forbidden)
            /\ category' = category
       ELSE IF k \notin ActiveCategories
            THEN /\ Answer(p, "category_update", k, u, NotFound)
                 /\ category' = category
            ELSE /\ Answer(p, "category_update", k, u, Ok)
                 /\ category' = [category EXCEPT ![k].is_active = v]
    /\ UNCHANGED <<storeVars, now, events, first, ever, created, text, tag, author>>

\* DELETE /categories/{id}/ by user u.
CategoryDeleteBy(p, u) ==
  \E k \in DOMAIN category :
    /\ IF ~StaffMayWrite(u)
       THEN /\ Answer(p, "category_delete", k, u, Forbidden)
            /\ category' = category
       ELSE IF k \notin ActiveCategories
            THEN /\ Answer(p, "category_delete", k, u, NotFound)
                 /\ category' = category
            ELSE /\ Answer(p, "category_delete", k, u, NoContent)
                 /\ category' = Without(category, k)
    /\ UNCHANGED <<storeVars, now, events, first, ever, created, text, tag, author>>

\* Who knocks at the staff desk: nobody in particular, an author, staff.
Callers == {Anonymous, "u1", "staff"}

\* Subscriptions requested by concurrent workers, one request each.
SubscribeNext ==
  \E p \in Procs : (\E u \in Callers : SubscribeBy(p, u)) \/ SubscribeInsert(p)

SpecSubscribe == Init /\ [][SubscribeNext]_vars

StaffStep(p) ==
  \/ \E u \in Callers :
       \/ SubscribeBy(p, u)
       \/ ConfirmBy(p, u)
       \/ UnsubscribeBy(p, u)
       \/ ResubscribeBy(p, u)
       \/ NewsletterUpdateBy(p, u)
       \/ NewsletterDeleteBy(p, u)
       \/ SendBy(p, u)
       \/ CampaignUpdateBy(p, u, {"scheduled"})
       \/ CampaignCreateBy(p, u)
       \/ CampaignDeleteBy(p, u)
       \/ CategoryCreateBy(p, u)
       \/ CategoryUpdateBy(p, u)
       \/ CategoryDeleteBy(p, u)
  \/ SubscribeInsert(p)
  \/ NewsletterSave(p)
  \/ SendExists(p)
  \/ SendCount(p)
  \/ CampaignSave(p)
  \/ CampaignUpdateSave(p)

\* No request is being served and p is the first worker that is free.
NextFree(p) == Quiet /\ \A q \in Procs : q < p => pc[q] # "idle"

\* Requests of any caller served one after another, each by the first free
\* worker.
StaffNextSeq == \E p \in Procs : (pc[p] = "idle" => NextFree(p)) /\ StaffStep(p)

SpecStaffSeq == Init /\ [][StaffNextSeq]_vars

\* Staff creating and updating campaigns with a schedule, one request after
\* another while the clock advances.
ScheduleStep(p) ==
  \/ CampaignCreateWith(p, "staff", {Absent, "scheduled"}, ScheduledAtPayloads)
  \/ CampaignUpdateWith(p, "staff", {Absent, "scheduled"}, ScheduledAtPayloads)
  \/ CampaignUpdateSave(p)

ScheduleNext ==
  \/ \E p \in Procs : (pc[p] = "idle" => NextFree(p)) /\ ScheduleStep(p)
  \/ Tick

SpecSchedule == Init /\ [][ScheduleNext]_vars

\* ------------------------------------------------------------ text values
\* A text is a sequence of characters.  The titles the writers use: a
\* word, one whose slug looks like a suffixed slug, and one without any
\* URL-safe character; an editor retitles to a word of the same slug or to
\* the title without URL-safe characters.
Titles == {<<"T">>, <<"T", " ", "1">>, <<"!">>}
Retitles == {<<"t">>, <<"!">>}

\*  str.lower, the regex classes \w and
\* [-\s] on the characters the titles use.
Lower(c) == IF c = "T" THEN "t" ELSE c
IsWord(c) == c \in {"t", "1", "2", "_"}
IsSep(c) == c \in {" ", "-"}

\* re.sub(r"[^\w\s-]", "", value.lower())
KeepSlugChars(t) ==
  SelectSeq([i \in 1..Len(t) |-> Lower(t[i])], LAMBDA c : IsWord(c) \/ IsSep(c))

\* re.sub(r"[-\s]+", "-", value)
RECURSIVE CollapseSeps(_)
CollapseSeps(t) ==
  IF t = <<>> THEN <<>>
  ELSE IF IsSep(t[1])
       THEN IF Len(t) > 1 /\ IsSep(t[2])
            THEN CollapseSeps(Tail(t))
            ELSE <<"-">> \o CollapseSeps(Tail(t))
       ELSE <<t[1]>> \o CollapseSeps(Tail(t))

\* str.strip("-_")
RECURSIVE StripEnds(_)
StripEnds(t) ==
  IF t = <<>> THEN <<>>
  ELSE IF t[1] \in {"-", "_"} THEN StripEnds(Tail(t))
  ELSE IF t[Len(t)] \in {"-", "_"} THEN StripEnds(SubSeq(t, 1, Len(t) - 1))
  ELSE t

\* django.utils.text.slugify as Article.save calls it.
Slugify(t) == StripEnds(CollapseSeps(KeepSlugChars(t)))

\* str(counter)
Digits == <<"0", "1", "2", "3", "4", "5", "6", "7", "8", "9">>
RECURSIVE Str(_)
Str(n) ==
  IF n < 10 THEN <<Digits[n + 1]>> ELSE Str(n \div 10) \o <<Digits[(n % 10) + 1]>>

\* f"{original_slug}-{counter}"
Suffixed(original_slug, counter) == original_slug \o <<"-">> \o Str(counter)

\* --------------------------------------------------------- article writers
\* The columns of an Article row kept here; deleted marks a row removed by
\* DELETE (ids are never reused).
RowFields == {"title", "slug", "author", "status", "published_at",
              "views_count", "is_featured", "is_breaking", "deleted"}
Row(instance) == [f \in RowFields |-> instance[f]]

Live == {i \in 1..Len(created) : ~created[i].deleted}

SlugNeverExists(slug) == FALSE

\* Article.objects.filter(slug=...).exists()
SlugExists(slug) == \E i \in Live : created[i].slug = slug

\* Creations accepted and not yet answered.
Creating == {q \in Procs : req[q].kind = "create" /\ pc[q] \in {"slug_probe", "insert"}}

\* ArticleCreateSerializer.create: a published article without published_at
\* is stamped with the current time.
CreateStamp(status, published_at, t) ==
  IF status = "published" /\ (published_at = NotGiven \/ IsNull(published_at[1]))
  THEN At(t)
  ELSE IF published_at = NotGiven THEN NullTime ELSE published_at[1]

\* Article.status default.
StatusOrDefault(status) == IF status = Absent THEN "draft" ELSE status

\* Article.save, first lines: an empty slug is derived from the title.
DeriveSlug(instance) ==
  IF instance.slug = <<>>
  THEN [instance EXCEPT !.slug = Slugify(instance.title),
                        !.original_slug = Slugify(instance.title),
                        !.counter = 1]
  ELSE instance

\* POST /articles/ by user u with payload d: IsAuthenticatedOrReadOnly, then
\* ArticleCreateSerializer.create and the start of Article.save.
CreateArticle(p, U, D) ==
  \E u \in U, d \in D :
    /\ pc[p] = "idle"
    /\ Len(created) + Cardinality(Creating) < MaxArticles
    /\ req' = [req EXCEPT ![p] =
                 [NoReq EXCEPT !.kind = "create", !.user = u,
                               !.title = Given(d.title), !.status = d.status,
                               !.published_at = d.published_at,
                               !.is_featured = d.is_featured,
                               !.is_breaking = d.is_breaking]]
    /\ IF IsAuthenticated(u)
       THEN /\ inst' = [inst EXCEPT ![p] = DeriveSlug(
                          [title |-> d.title, slug |-> <<>>,
                           original_slug |-> <<>>, counter |-> 0,
                           author |-> u, status |-> StatusOrDefault(d.status),
                           published_at |-> CreateStamp(d.status, d.published_at, now),
                           views_count |-> 0, is_featured |-> d.is_featured,
                           is_breaking |-> d.is_breaking, deleted |-> FALSE])]
            /\ pc' = [pc EXCEPT ![p] = "slug_probe"]
            /\ resp' = resp
       ELSE /\ Reply(p, Forbidden)
            /\ inst' = inst
    /\ UNCHANGED <<storeVars, now, events, first, ever, created, category, text, tag, author>>

\* Article.save, the while loop: one exists() query per turn.
SlugProbe(p) ==
  /\ pc[p] = "slug_probe"
  /\ IF SlugExists(inst[p].slug)
     THEN /\ inst' = [inst EXCEPT ![p] =
                        [inst[p] EXCEPT
                           !.slug = Suffixed(inst[p].original_slug, inst[p].counter),
                           !.counter = inst[p].counter + 1]]
          /\ pc' = pc
     ELSE /\ inst' = inst
          /\ pc' = [pc EXCEPT ![p] = IF req[p].kind = "create"
                                     THEN "insert" ELSE "write"]
  /\ UNCHANGED <<storeVars, now, req, resp, events, first, ever, created, category, text, tag, author>>

\* super().save() of a new instance: INSERT under the unique constraint of
\* Article.slug; the IntegrityError is not caught.
Insert(p) ==
  /\ pc[p] = "insert"
  /\ IF SlugExists(inst[p].slug)
     THEN /\ Reply(p, ServerError("IntegrityError"))
          /\ created' = created
     ELSE /\ created' = Append(created, Row(inst[p]))
          /\ Reply(p, Created)
  /\ Drop(p)
  /\ UNCHANGED <<storeVars, now, req, events, first, ever, category, text, tag, author>>

\* ArticleViewSet.get_queryset: the rows the requester may see.
Visible(u) ==
  IF ~IsAuthenticated(u) THEN {i \in Live : created[i].status = "published"}
  ELSE IF ~IsStaff(u)
       THEN {i \in Live : created[i].status = "published" \/ created[i].author = u}
       ELSE Live

\* IsAuthenticatedOrReadOnly.has_permission for an unsafe method.
MayWrite(u) == IsAuthenticated(u)

MayWriteAnyObject(u, obj) == TRUE

\* IsAuthorOrReadOnly.has_object_permission for an unsafe method.
MayWriteObject(u, obj) == obj.author = u \/ IsStaff(u)

\* The answer of view.initial and get_object to an unsafe request on row i.
Admission(u, i) ==
  IF ~MayWrite(u) THEN Forbidden
  ELSE IF i \notin Visible(u) THEN NotFound
  ELSE IF ~MayWriteObject(u, created[i]) THEN Forbidden
  ELSE Ok

\* PUT / PATCH /articles/{id}/ on a created row by user u with payload d:
\* permissions, get_object, ModelSerializer.update, the start of Article.save.
EditArticle(p, U, D) ==
  \E u \in U, i \in 1..Len(created), d \in D :
    /\ pc[p] = "idle"
    /\ req' = [req EXCEPT ![p] =
                 [NoReq EXCEPT !.kind = "edit", !.user = u, !.id = i,
                               !.title = d.title, !.status = d.status,
                               !.published_at = d.published_at]]
    /\ IF Admission(u, i) = Ok
       THEN LET loaded == created[i] @@ [original_slug |-> <<>>, counter |-> 0]
                titled == IF d.title = NotGiven THEN loaded
                          ELSE [loaded EXCEPT !.title = d.title[1]]
                edited == SetPublishedAt(SetStatus(titled, d.status),
                                         d.published_at)
            IN  /\ inst' = [inst EXCEPT ![p] = DeriveSlug(edited)]
                /\ pc' = [pc EXCEPT ![p] = IF edited.slug = <<>>
                                           THEN "slug_probe" ELSE "write"]
                /\ resp' = resp
       ELSE /\ Reply(p, Admission(u, i))
            /\ inst' = inst
    /\ UNCHANGED <<storeVars, now, events, first, ever, created, category, text, tag, author>>

\* super().save() of a loaded instance: UPDATE of every column by primary
\* key, INSERT with that key when the row is gone, both under the unique
\* constraint of Article.slug.
WriteRow(p) ==
  /\ pc[p] = "write"
  /\ IF \E j \in Live \ {req[p].id} : created[j].slug = inst[p].slug
     THEN /\ Reply(p, ServerError("IntegrityError"))
          /\ created' = created
     ELSE /\ created' = [created EXCEPT ![req[p].id] = Row(inst[p])]
          /\ Reply(p, Ok)
  /\ Drop(p)
  /\ UNCHANGED <<storeVars, now, req, events, first, ever, category, text, tag, author>>

\* What is left of a deleted row: its id.
Tombstone == [title |-> <<>>, slug |-> <<>>, author |-> "none",
              status |-> "draft", published_at |-> NullTime, views_count |-> 0,
              is_featured |-> FALSE, is_breaking |-> FALSE, deleted |-> TRUE]

\* DELETE /articles/{id}/ by user u: permissions, get_object, delete().
DeleteArticle(p, U) ==
  \E u \in U, i \in 1..Len(created) :
    /\ pc[p] = "idle"
    /\ req' = [req EXCEPT ![p] =
                 [NoReq EXCEPT !.kind = "delete", !.user = u, !.id = i]]
    /\ IF Admission(u, i) = Ok
       THEN /\ created' = [created EXCEPT ![i] = Tombstone]
            /\ articleViews' = {v \in articleViews : v.article # i}
            /\ Reply(p, NoContent)
       ELSE /\ UNCHANGED <<created, articleViews>>
            /\ Reply(p, Admission(u, i))
    /\ UNCHANGED <<article, newsletter, campaign, now, inst, events, first, ever, category, text, tag, author>>

\* ---------------------------------------------------------- article readers
\* The sequences that list the ids of S once each.
Arrangements(S) ==
  {f \in [1..Cardinality(S) -> S] :
     \A i, j \in 1..Cardinality(S) : i # j => f[i] # f[j]}

\* A serialized article.
Shown(i) == created[i] @@ [id |-> i]
ShownAll(f) == [k \in DOMAIN f |-> Shown(f[k])]

\* ordering = ['-published_at', '-created_at']: NULL sorts first or last
\* with the database; created_at grows with the id.
PublishedKey(i, nullsFirst) ==
  IF IsNull(created[i].published_at)
  THEN IF nullsFirst THEN MaxTime + 1 ELSE 0
  ELSE created[i].published_at[1]

DefaultOrder(S, nullsFirst) ==
  CHOOSE f \in Arrangements(S) :
    \A a, b \in 1..Cardinality(S) :
      a < b => \/ PublishedKey(f[a], nullsFirst) > PublishedKey(f[b], nullsFirst)
               \/ /\ PublishedKey(f[a], nullsFirst) = PublishedKey(f[b], nullsFirst)
                  /\ f[a] > f[b]

\* GET /articles/ by user u: the queryset of get_queryset in default order.
ListArticles(p, U) ==
  \E u \in U, nullsFirst \in BOOLEAN :
    /\ pc[p] = "idle"
    /\ req' = [req EXCEPT ![p] = [NoReq EXCEPT !.kind = "list", !.user = u]]
    /\ Reply(p, OkWith(ShownAll(DefaultOrder(Visible(u), nullsFirst))))
    /\ UNCHANGED <<storeVars, now, inst, events, first, ever, created, category, text, tag, author>>

\* GET /articles/{id}/ by user u in session s: get_object; a published
\* article goes on to track_article_view.
DetailArticle(p, U, S) ==
  \E u \in U, i \in 1..Len(created), s \in S :
    /\ pc[p] = "idle"
    /\ created[i].views_count < MaxViews
    /\ req' = [req EXCEPT ![p] = [NoReq EXCEPT !.kind = "detail", !.user = u,
                                              !.id = i, !.session = s]]
    /\ IF i \notin Visible(u)
       THEN Reply(p, NotFound) /\ inst' = inst
       ELSE IF created[i].status = "published"
            THEN /\ inst' = [inst EXCEPT ![p] = created[i]]
                 /\ pc' = [pc EXCEPT ![p] = "track"]
                 /\ resp' = resp
            ELSE Reply(p, OkWith(<<Shown(i)>>)) /\ inst' = inst
    /\ UNCHANGED <<storeVars, now, events, first, ever, created, category, text, tag, author>>

\* track_article_view of a created row: get_or_create of the ArticleView of
\* the session, then views_count += 1 and save(update_fields=['views_count']),
\* which fails on a row that is gone.
TrackView(p) ==
  /\ pc[p] = "track"
  /\ LET i == req[p].id
         seen == \E v \in articleViews :
                   v.article = i /\ v.session_key = req[p].session
         counted == [inst[p] EXCEPT !.views_count = IncrementedViews(inst[p])]
     IN  /\ articleViews' =
              IF seen \/ created[i].deleted THEN articleViews
              ELSE articleViews \cup
                     {[id |-> NextViewId, article |-> i,
                       session_key |-> req[p].session, meta |-> "ua1"]}
         /\ IF created[i].deleted
            THEN /\ Reply(p, ServerError("DatabaseError"))
                 /\ created' = created
            ELSE /\ created' = [created EXCEPT
                                  ![i].views_count = counted.views_count]
                 /\ Reply(p, OkWith(<<counted @@ [id |-> i]>>))
  /\ Drop(p)
  /\ UNCHANGED <<article, newsletter, campaign, now, req, events, first, ever, category, text, tag, author>>

\* The worker takes the next request.
Recycle(p) ==
  /\ pc[p] = "done"
  /\ pc' = [pc EXCEPT ![p] = "idle"]
  /\ req' = [req EXCEPT ![p] = NoReq]
  /\ resp' = [resp EXCEPT ![p] = NoResp]
  /\ UNCHANGED <<storeVars, now, inst, events, first, ever, created, category, text, tag, author>>

\* ------------------------------------------------------------- slug desk
\* Payloads of an author who decides on the title only.
TitlePayloads ==
  {[title |-> t, status |-> Absent, published_at |-> NotGiven,
    is_featured |-> FALSE, is_breaking |-> FALSE] : t \in Titles}

RetitlePayloads ==
  {[title |-> t, status |-> Absent, published_at |-> NotGiven] :
     t \in {NotGiven} \cup {Given(x) : x \in Retitles}}

\* Creation and deletion.
NamingStep(p) ==
  \/ CreateArticle(p, {"u1"}, TitlePayloads)
  \/ SlugProbe(p)
  \/ Insert(p)
  \/ DeleteArticle(p, {"u1"})

SlugStep(p) ==
  \/ NamingStep(p)
  \/ EditArticle(p, {"u1"}, RetitlePayloads)
  \/ WriteRow(p)

\* Writers served by concurrent workers, one request each.
SlugNext == \E p \in Procs : SlugStep(p)

SpecSlug == Init /\ [][SlugNext]_vars

\* Every worker waits for a request.
Rested == \A p \in Procs : pc[p] = "idle"

\* Writers served one after another: a request starts when the one before
\* it has been answered and its worker is free again.
SlugNextSeq ==
  \E p \in Procs : \/ SlugStep(p) /\ (pc[p] = "idle" => Rested)
                   \/ Recycle(p)

SpecSlugSeq == Init /\ [][SlugNextSeq]_vars

\* Articles created and deleted one after another, never edited.
NamingNextSeq ==
  \E p \in Procs : \/ NamingStep(p) /\ (pc[p] = "idle" => Rested)
                   \/ Recycle(p)

SpecNamingSeq == Init /\ [][NamingNextSeq]_vars

\* ------------------------------------------------------------ access desk
\* An author who decides on the status only, and what any requester may
\* try to put on an article.
StatusPayloads ==
  {[title |-> <<"T">>, status |-> s, published_at |-> NotGiven,
    is_featured |-> FALSE, is_breaking |-> FALSE] :
     s \in {Absent, "published"}}

RestatusPayloads ==
  {[title |-> NotGiven, status |-> s, published_at |-> NotGiven] :
     s \in {"draft", "published"}}

AccessStep(p) ==
  \/ CreateArticle(p, {"u1", Anonymous}, StatusPayloads)
  \/ SlugProbe(p)
  \/ Insert(p)
  \/ EditArticle(p, Requesters, RestatusPayloads)
  \/ WriteRow(p)
  \/ DeleteArticle(p, Requesters)
  \/ ListArticles(p, Requesters)
  \/ DetailArticle(p, Requesters, {"s1"})
  \/ TrackView(p)

\* Requests served by concurrent workers, one request each.
AccessNext == \E p \in Procs : AccessStep(p)

SpecAccess == Init /\ [][AccessNext]_vars

\* ------------------------------------------------------ publication desk
\* Payloads of an author who decides on status and published_at only.
PublishPayloads ==
  {[title |-> <<"T">>, status |-> s, published_at |-> t,
    is_featured |-> FALSE, is_breaking |-> FALSE] :
     s \in {Absent, "draft", "published"}, t \in PublishedAtPayloads}

PublishStep(p) ==
  \/ ApiUpdateWith(p, PublishedAtPayloads)
  \/ UpdateSave(p)
  \/ CreateArticle(p, {"u1"}, PublishPayloads)
  \/ SlugProbe(p)
  \/ Insert(p)

\* Requests served one after another while the clock advances.
PublishNext ==
  \/ \E p \in Procs : PublishStep(p) /\ (pc[p] = "idle" => Quiet)
  \/ Quiet /\ ArticleAdminStep
  \/ Tick

SpecPublish == Init /\ [][PublishNext]_vars

\* ------------------------------------------------------------ ranking desk
\* The clock counts hours; timedelta(days=days) is days * 24 of them.
HoursPerDay == 24

\* since = timezone.now() - timedelta(days=days)
Since(t, days) == t - days * HoursPerDay

PublishedOrNot(S) == S

\* .filter(status='published')
PublishedOnly(S) == {i \in S : created[i].status = "published"}

\* .filter(published_at__gte=since): a NULL published_at matches nothing.
InWindow(S, since) ==
  {i \in S : /\ ~IsNull(created[i].published_at)
             /\ created[i].published_at[1] >= since}

\* .filter(is_featured=True) and .filter(is_breaking=True)
FeaturedOnly(S) == {i \in S : created[i].is_featured}
BreakingOnly(S) == {i \in S : created[i].is_breaking}

ByViewsAnyOrder(S) == Arrangements(S)

\* .order_by('-views_count'): rows of equal views_count come in any order.
ByViews(S) ==
  {f \in Arrangements(S) :
     \A a, b \in DOMAIN f :
       a < b => created[f[a]].views_count >= created[f[b]].views_count}

Untruncated(rows, limit) == rows

\* queryset[:limit] with limit >= 0
Truncate(rows, limit) ==
  SubSeq(rows, 1, IF limit < Len(rows) THEN limit ELSE Len(rows))

\* A read-only query of the articles answers in one step.
Query(p, r, rows) ==
  /\ pc[p] = "idle"
  /\ req' = [req EXCEPT ![p] = r]
  /\ Reply(p, OkWith(rows))
  /\ UNCHANGED <<storeVars, now, inst, events, first, ever, created, category, text, tag, author>>

\* GET /articles/featured/ in the ordering of Article.Meta.
Featured(p, U) ==
  \E u \in U, nullsFirst \in BOOLEAN :
    Query(p, [NoReq EXCEPT !.kind = "featured", !.user = u],
          ShownAll(DefaultOrder(PublishedOnly(FeaturedOnly(Visible(u))),
                                nullsFirst)))

\* GET /articles/trending/?days=&limit=
Trending(p, U, D, L) ==
  \E u \in U, days \in D, limit \in L :
    \E f \in ByViews(InWindow(PublishedOnly(Visible(u)), Since(now, days))) :
      Query(p, [NoReq EXCEPT !.kind = "trending", !.user = u,
                             !.days = days, !.limit = limit],
            Truncate(ShownAll(f), limit))

\* GET /articles/breaking/?limit=
Breaking(p, U, L) ==
  \E u \in U, limit \in L, nullsFirst \in BOOLEAN :
    Query(p, [NoReq EXCEPT !.kind = "breaking", !.user = u, !.limit = limit],
          Truncate(ShownAll(DefaultOrder(PublishedOnly(BreakingOnly(Visible(u))),
                                         nullsFirst)), limit))

\* GET /articles/latest/?limit=
Latest(p, U, L) ==
  \E u \in U, limit \in L, nullsFirst \in BOOLEAN :
    Query(p, [NoReq EXCEPT !.kind = "latest", !.user = u, !.limit = limit],
          Truncate(ShownAll(DefaultOrder(PublishedOnly(Visible(u)), nullsFirst)),
                   limit))

\* The k-th article of author u1 under the title "T": its slug is the one
\* Article.save derives for the k-th bearer of the title.
ShelfRow(r, k) ==
  [title |-> <<"T">>,
   slug |-> IF k = 1 THEN <<"t">> ELSE Suffixed(<<"t">>, k - 1),
   author |-> "u1", status |-> r.status, published_at |-> r.published_at,
   views_count |-> r.views_count, is_featured |-> r.is_featured,
   is_breaking |-> r.is_breaking, deleted |-> FALSE]

\* The site with up to MaxShelf articles already stored, their columns drawn
\* from R, at an instant of T.
InitShelf(R, T) ==
  /\ article = [a \in Articles |-> NewArticle("draft", NullTime)]
  /\ articleViews = {}
  /\ newsletter = [s \in Subs |->
                     IF s = "n1" THEN [NewNewsletter EXCEPT !.confirmed_at = At(1)]
                     ELSE NewNewsletter]
  /\ campaign = [c \in Campaigns |-> NewCampaign]
  /\ now \in T
  /\ pc = [p \in Procs |-> "idle"]
  /\ req = [p \in Procs |-> NoReq]
  /\ inst = [p \in Procs |-> NoInst]
  /\ resp = [p \in Procs |-> NoResp]
  /\ events = [p \in Procs |-> {}]
  /\ first = [k \in Articles \X Sessions |-> 0]
  /\ ever = [a \in Articles |-> FALSE]
  /\ \E m \in 0..MaxShelf : \E f \in [1..m -> R] :
       created = [k \in 1..m |-> ShelfRow(f[k], k)]
  /\ category = [k \in {"k1"} |-> [is_active |-> TRUE]]
  /\ text = NoText
  /\ tag = <<>>
  /\ author = <<>>

\* Drafts and published articles, featured or breaking or neither.
ShelfRows ==
  {[status |-> s, published_at |-> IF s = "published" THEN At(1) ELSE NullTime,
    views_count |-> 0, is_featured |-> f, is_breaking |-> b] :
     s \in {"draft", "published"}, f \in BOOLEAN, b \in BOOLEAN}

Limits == 0..MaxShelf

ShelfStep(p) ==
  \/ Featured(p, Requesters)
  \/ Trending(p, Requesters, {0, 1}, Limits)
  \/ Breaking(p, Requesters, Limits)
  \/ Latest(p, Requesters, Limits)

\* One ranking query asked of each stored shelf.
ShelfNext == \E p \in Procs : Rested /\ NextFree(p) /\ ShelfStep(p)

SpecShelves == InitShelf(ShelfRows, {1}) /\ [][ShelfNext]_vars

\* Articles of every status, publication instant and number of views.
TrendRows ==
  {[status |-> s, published_at |-> t, views_count |-> v,
    is_featured |-> FALSE, is_breaking |-> FALSE] :
     s \in {"draft", "published"},
     t \in {NullTime} \cup {At(h) : h \in 1..MaxTime}, v \in 0..MaxViews}

TrendNext ==
  \E p \in Procs :
    Rested /\ NextFree(p) /\ Trending(p, {Anonymous, "u1"}, {0, 1}, Limits)

SpecTrending == InitShelf(TrendRows, {MaxTime}) /\ [][TrendNext]_vars

\* ---------------------------------------------------------------- text desk
\* Article.save: the numbers of the excerpt, the meta fields and the read time.
ExcerptLimit == 500
ExcerptKeep == 497
MetaTitleLength == 60
MetaDescriptionLength == 160
WordsPerMinute == 200

\* The columns of a new Article before the payload is applied.
NewText ==
  [title |-> <<>>, content |-> <<>>, excerpt |-> <<>>, meta_title |-> <<>>,
   meta_description |-> <<>>, read_time |-> 0]

\* A text of n one-letter words, gap spaces between two words.
Body(n, gap) ==
  [i \in 1..(IF n = 0 THEN 0 ELSE n + (n - 1) * gap) |->
     IF (i - 1) % (1 + gap) # 0 THEN " "
     ELSE IF ((i - 1) \div (1 + gap)) % 2 = 0 THEN "a" ELSE "b"]

\* Texts of 0..MaxWords words a space apart, where a last letter makes the
\* lengths odd and even, and the texts of whole half minutes two spaces apart.
Contents ==
  {Body(n, 1) \o t : n \in 0..MaxWords, t \in {<<>>, <<"c">>}}
  \cup {Body(n, 2) : n \in {k \in 0..MaxWords : k % (WordsPerMinute \div 2) = 0}}

LongTitle == [i \in 1..(MetaTitleLength + 1) |-> IF i % 2 = 1 THEN "x" ELSE "y"]

\* CharField(trim_whitespace=True) of the serializer: value.strip().
RECURSIVE TrimLeft(_)
TrimLeft(s) ==
  IF s # <<>> /\ Head(s) = " " THEN TrimLeft(Tail(s)) ELSE s

RECURSIVE TrimRight(_)
TrimRight(s) ==
  IF s # <<>> /\ s[Len(s)] = " " THEN TrimRight(SubSeq(s, 1, Len(s) - 1)) ELSE s

Trim(s) == TrimRight(TrimLeft(s))

\* s[:n]
Prefix(s, n) == SubSeq(s, 1, IF n < Len(s) THEN n ELSE Len(s))

\* len(self.content.split()): the maximal runs of characters that are not
\* whitespace.
WordCount(content) ==
  Cardinality({i \in 1..Len(content) :
                 content[i] # " " /\ (i = 1 \/ content[i - 1] = " ")})

RoundHalfUp(n, d) == (2 * n + d) \div (2 * d)

\* round(n / d) of Python 3: to the nearest integer, a tie to the even one.
RoundHalfEven(n, d) ==
  LET q == n \div d
      r == n % d
  IN  IF 2 * r < d THEN q
      ELSE IF 2 * r > d THEN q + 1
      ELSE IF q % 2 = 0 THEN q ELSE q + 1

\* max(1, round(word_count / 200))
ReadTime(content) ==
  LET m == RoundHalfEven(WordCount(content), WordsPerMinute)
  IN  IF m < 1 THEN 1 ELSE m

ExcerptVerbatim(content) == content

\* self.content[:497] + '...' if len(self.content) > 500 else self.content
DeriveExcerpt(content) ==
  IF Len(content) > ExcerptLimit
  THEN Prefix(content, ExcerptKeep) \o <<".", ".", ".">>
  ELSE content

AlwaysDerived(derived, stored) == derived

\* `if not self.<field>:` the derived value only over an empty field.
IfEmpty(derived, stored) == IF stored = <<>> THEN derived ELSE stored

\* Article.save on the text columns of an instance, in the order of the code.
ArticleSaveText(instance) ==
  LET excerpt == IF instance.content # <<>>
                 THEN IfEmpty(DeriveExcerpt(instance.content), instance.excerpt)
                 ELSE instance.excerpt
  IN  [title |-> instance.title,
       content |-> instance.content,
       excerpt |-> excerpt,
       meta_title |-> IfEmpty(Prefix(instance.title, MetaTitleLength),
                              instance.meta_title),
       meta_description |-> IfEmpty(Prefix(excerpt, MetaDescriptionLength),
                                    instance.meta_description),
       read_time |-> IF instance.content # <<>>
                     THEN ReadTime(instance.content)
                     ELSE instance.read_time]

TextFields == {"title", "content", "excerpt", "meta_title", "meta_description"}

\* A payload: NotGiven for every field the client leaves out.
TextPayload(title, content, excerpt, meta_title, meta_description) ==
  [title |-> title, content |-> content, excerpt |-> excerpt,
   meta_title |-> meta_title, meta_description |-> meta_description]

\* to_internal_value: a given text is stripped.
Cleaned(d) == [f \in TextFields |-> IF d[f] = NotGiven THEN NotGiven
                                    ELSE Given(Trim(d[f][1]))]

\* is_valid: title and content are required on creation and never blank.
ValidText(d, creating) ==
  /\ \A f \in {"title", "content"} :
       /\ creating => d[f] # NotGiven
       /\ d[f] # NotGiven => d[f][1] # <<>>

\* ModelSerializer.create / update: setattr for every validated field.
ApplyText(instance, d) ==
  [f \in DOMAIN instance |->
     IF f \in TextFields /\ d[f] # NotGiven THEN d[f][1] ELSE instance[f]]

TextRequest(k, d) ==
  [NoReq EXCEPT !.kind = k, !.title = d.title, !.content = d.content,
                !.excerpt = d.excerpt, !.meta_title = d.meta_title,
                !.meta_description = d.meta_description]

\* POST /articles/ with payload d of P: is_valid, create, Article.save.
CreateText(p, P) ==
  /\ pc[p] = "idle"
  /\ text = NoText
  /\ \E d \in P :
    /\ req' = [req EXCEPT ![p] = TextRequest("text_create", d)]
    /\ IF ValidText(Cleaned(d), TRUE)
       THEN /\ text' = ArticleSaveText(ApplyText(NewText, Cleaned(d)))
            /\ Reply(p, Created)
       ELSE /\ text' = text
            /\ Reply(p, BadRequest("text"))
    /\ UNCHANGED <<storeVars, now, inst, events, first, ever, created, category, tag, author>>

\* PATCH /articles/{id}/ with payload d of P: get_object, is_valid, update,
\* Article.save.
EditText(p, P) ==
  /\ pc[p] = "idle"
  /\ text # NoText
  /\ \E d \in P :
    /\ req' = [req EXCEPT ![p] = TextRequest("text_update", d)]
    /\ IF ValidText(Cleaned(d), FALSE)
       THEN /\ text' = ArticleSaveText(ApplyText(text, Cleaned(d)))
            /\ Reply(p, Ok)
       ELSE /\ text' = text
            /\ Reply(p, BadRequest("text"))
    /\ UNCHANGED <<storeVars, now, inst, events, first, ever, created, category, tag, author>>

\* Creations: every text of Contents under the title "T" with nothing else
\* supplied, and two with a long title or an excerpt of the author.
CreateTexts ==
  {TextPayload(Given(<<"T">>), Given(c), NotGiven, NotGiven, NotGiven) :
     c \in Contents}
  \cup {TextPayload(Given(LongTitle), Given(<<"a">>), NotGiven, NotGiven, NotGiven),
        TextPayload(Given(<<"T">>), Given(Body(ExcerptLimit, 1)),
                    Given(<<"E">>), NotGiven, NotGiven)}

\* Edits: a new text of 100 words under a new long title, a long text with
\* the excerpt blanked, a blank text, and meta fields of the author.
EditTexts ==
  {TextPayload(Given(LongTitle), Given(Body(WordsPerMinute \div 2, 1)), NotGiven,
               NotGiven, NotGiven),
   TextPayload(NotGiven, Given(Body(ExcerptLimit, 1)), Given(<<>>),
               NotGiven, NotGiven),
   TextPayload(NotGiven, Given(<<" ">>), NotGiven, NotGiven, NotGiven),
   TextPayload(NotGiven, NotGiven, NotGiven, Given(<<"M">>), Given(<<"D">>))}

TextStep(p) == CreateText(p, CreateTexts) \/ EditText(p, EditTexts)

\* One article written and then edited, each request by the next worker.
TextNext == \E p \in Procs : NextFree(p) /\ TextStep(p)

SpecText == Init /\ [][TextNext]_vars

\* -------------------------------------------------------------- search desk
\* GlobalSearchView.search: the slices of the four querysets.
ArticleCap == 10
CategoryCap == 5
TagCap == 5
AuthorCap == 5

SearchTypes == {"articles", "categories", "tags", "authors"}

\* The values of the type parameter, one of them not a type.
TypeParams == SearchTypes \cup {"all", "other"}

\* The values of the q parameter: missing, blank, and two words in spaces.
QueryParams == {<<>>, <<" ">>, <<" ", "t">>, <<"1", " ">>}

\* <field>__icontains=query: the query occurs in the field, letter case apart.
IContains(field, query) ==
  LET f == [i \in DOMAIN field |-> Lower(field[i])]
      n == [i \in DOMAIN query |-> Lower(query[i])]
  IN  \E i \in 0..(Len(f) - Len(n)) : SubSeq(f, i + 1, i + Len(n)) = n

\* Article.Meta.ordering without enumerating the arrangements: the k-th row
\* is the one with k - 1 rows before it.
MetaOrder(S, nullsFirst) ==
  LET Before(i, j) ==
        \/ PublishedKey(i, nullsFirst) > PublishedKey(j, nullsFirst)
        \/ /\ PublishedKey(i, nullsFirst) = PublishedKey(j, nullsFirst)
           /\ i > j
  IN  [k \in 1..Cardinality(S) |->
         CHOOSE i \in S : Cardinality({j \in S : Before(j, i)}) = k - 1]

\* The rows of a table, in id order, that satisfy Hit.
Hits(table, Hit(_)) ==
  LET ids == {k \in DOMAIN table : Hit(table[k])}
  IN  [k \in 1..Cardinality(ids) |->
         table[CHOOSE i \in ids : Cardinality({j \in ids : j < i}) = k - 1]]

\* Article.objects.filter(Q(title__icontains=query) | ..., status='published')
\* on the title, the one searched column the rows carry.
ArticleHits(query, nullsFirst) ==
  ShownAll(MetaOrder({i \in Live : /\ IContains(created[i].title, query)
                                   /\ created[i].status = "published"},
                     nullsFirst))

CategoryHits(query) ==
  LET Hit(row) == /\ IContains(row.name, query) \/ IContains(row.description, query)
                  /\ row.is_active
  IN  Hits(category, Hit)

TagHits(query) ==
  LET Hit(row) == IContains(row.name, query) \/ IContains(row.description, query)
  IN  Hits(tag, Hit)

AuthorHits(query) ==
  LET Hit(row) == IContains(row.username, query) \/ IContains(row.bio, query)
  IN  Hits(author, Hit)

\* `if search_type in ['all', t]` for each of the four types.
Selected(type) == {t \in SearchTypes : type \in {"all", t}}

SearchResults(query, type, nullsFirst) ==
  [t \in Selected(type) |->
     CASE t = "articles" -> Truncate(ArticleHits(query, nullsFirst), ArticleCap)
       [] t = "categories" -> Truncate(CategoryHits(query), CategoryCap)
       [] t = "tags" -> Truncate(TagHits(query), TagCap)
       [] t = "authors" -> Truncate(AuthorHits(query), AuthorCap)]

\* sum(len(items) for items in results.values())
RECURSIVE TotalResults(_, _)
TotalResults(results, S) ==
  IF S = {} THEN 0
  ELSE LET t == CHOOSE x \in S : TRUE
       IN  Len(results[t]) + TotalResults(results, S \ {t})

\* GET /search/search/?q=&type=
GlobalSearch(p, Q, Y) ==
  /\ pc[p] = "idle"
  /\ \E q \in Q, type \in Y, nullsFirst \in BOOLEAN :
       LET query == Trim(q)
           results == SearchResults(query, type, nullsFirst)
       IN  /\ req' = [req EXCEPT ![p] = [NoReq EXCEPT !.kind = "search",
                                                    !.q = Given(q),
                                                    !.type = Given(type)]]
           /\ IF query = <<>>
              THEN Reply(p, BadRequest("query"))
              ELSE Reply(p, OkWith([query |-> query,
                                    total_results |->
                                      TotalResults(results, DOMAIN results),
                                    results |-> results]))
  /\ UNCHANGED <<storeVars, now, inst, events, first, ever, created, category, text, tag, author>>

\* Table sizes around a cap: none, just below, at, and above it.
SizesAround(cap) == {0} \cup (cap - 1)..(cap + MaxOver)

\* The site with n articles titled "T", the last d of them drafts, with
\* categories (the first one active or not), tags and authors that are
\* named by their number and described by "T".
InitSearch ==
  /\ article = [a \in Articles |-> NewArticle("draft", NullTime)]
  /\ articleViews = {}
  /\ newsletter = [s \in Subs |->
                     IF s = "n1" THEN [NewNewsletter EXCEPT !.confirmed_at = At(1)]
                     ELSE NewNewsletter]
  /\ campaign = [c \in Campaigns |-> NewCampaign]
  /\ now = 1
  /\ pc = [p \in Procs |-> "idle"]
  /\ req = [p \in Procs |-> NoReq]
  /\ inst = [p \in Procs |-> NoInst]
  /\ resp = [p \in Procs |-> NoResp]
  /\ events = [p \in Procs |-> {}]
  /\ first = [k \in Articles \X Sessions |-> 0]
  /\ ever = [a \in Articles |-> FALSE]
  /\ text = NoText
  /\ \E n \in SizesAround(ArticleCap), d \in {0, 1} :
       created = [k \in 1..n |->
                    ShelfRow([status |-> IF k > n - d THEN "draft" ELSE "published",
                              published_at |-> IF k > n - d THEN NullTime ELSE At(1),
                              views_count |-> 0, is_featured |-> FALSE,
                              is_breaking |-> FALSE], k)]
  /\ \E n \in SizesAround(CategoryCap), active \in BOOLEAN :
       category = [k \in 1..n |-> [is_active |-> k > 1 \/ active, name |-> Str(k),
                                   description |-> <<"T">>]]
  /\ \E n \in SizesAround(TagCap) :
       tag = [k \in 1..n |-> [name |-> Str(k), description |-> <<"T">>]]
  /\ \E n \in SizesAround(AuthorCap) :
       author = [k \in 1..n |-> [username |-> Str(k), bio |-> <<"T">>]]

\* One search asked of each stored site.
SearchNext ==
  \E p \in Procs : Rested /\ NextFree(p) /\ GlobalSearch(p, QueryParams, TypeParams)

SpecSearch == InitSearch /\ [][SearchNext]_vars

\* ---------------------------------------------------------- subscriber desk
NewsletterStep(p) ==
  \/ Confirm(p)
  \/ Unsubscribe(p)
  \/ Resubscribe(p)
  \/ NewsletterSave(p)

\* Subscribers confirming, unsubscribing and resubscribing through
\* concurrent workers, one request each, while the clock advances.
NewsletterNext == (\E p \in Procs : NewsletterStep(p)) \/ Tick

SpecNewsletter == Init /\ [][NewsletterNext]_vars

\* The same requests one after another, a worker taking a new request once
\* it has answered.
NewsletterNextSeq ==
  \/ \E p \in Procs : (pc[p] = "idle" => Quiet) /\ NewsletterStep(p)
  \/ \E p \in Procs : Recycle(p)
  \/ Quiet /\ Tick

SpecNewsletterSeq == Init /\ [][NewsletterNextSeq]_vars

\* ================================================================ claims
\* Completed record_view calls of a session on an article, and completed
\* increments (record_view or increment_views) of an article.
ViewCalls(a, s) ==
  {p \in Procs : /\ req[p].kind = "retrieve" /\ req[p].target = a
                 /\ req[p].session = s /\ "saved" \in events[p]}

\* The stored ArticleView rows of a session on an article.
RowsOf(a, s) == {v \in articleViews : v.article = a /\ v.session_key = s}

Increments(a) == {p \in Procs : req[p].target = a /\ "saved" \in events[p]}

\* C1 (as claimed): no operation takes an article from published to draft,
\* and an update is refused with a validation error only for that pair.
C1_PublishedNeverToDraft ==
  [][/\ \A a \in Articles :
          article[a].status = "published" => article'[a].status # "draft"
     /\ \A p \in Procs :
          (pc[p] = "update_save" /\ resp'[p].code = 400)
            => (inst[p].status = "published" /\ req[p].status = "draft")]_vars

\* C2 (as claimed): in every step, also of concurrent requests, the stored
\* views_count of every article is at least what it was before the step.
C2_ViewsNeverDecrease ==
  [][\A a \in Articles :
       article'[a].views_count >= article[a].views_count]_vars

\* C3: served one after another, k >= 1 record_view calls of one session on
\* one article leave exactly one ArticleView row for the pair, carrying the
\* metadata of the first call, and every completed call has added exactly 1
\* to views_count.
C3_OneRowPerSession ==
  Quiet =>
    \A a \in Articles :
      /\ article[a].views_count = Cardinality(Increments(a))
      /\ \A s \in Sessions :
           ViewCalls(a, s) # {} =>
             /\ Cardinality(RowsOf(a, s)) = 1
             /\ \A v \in RowsOf(a, s) : v.meta = req[first[<<a, s>>]].meta

C3_Witness ==
  /\ Quiet
  /\ \E a \in Articles, s \in Sessions :
       \E p, q \in ViewCalls(a, s) :
         p # q /\ req[p].meta # req[q].meta /\ article[a].views_count >= 2

\* C4 (as claimed): when all N concurrent record_view / increment_views
\* requests have completed, views_count is the initial 0 plus N.
C4_NoLostIncrement ==
  (\A p \in Procs : pc[p] = "done"
                    /\ req[p].kind \in {"retrieve", "increment_views"})
    => \A a \in Articles :
         article[a].views_count = Cardinality(Increments(a))

\* C5: two concurrent record_view requests of one (article, session) that
\* both found no row leave exactly one row; the one whose insert the
\* uniqueness constraint rejects answers 200 and performs its increment.
C5_DuplicateViewIsNoError ==
  /\ \A a \in Articles, s \in Sessions : Cardinality(RowsOf(a, s)) <= 1
  /\ \A p \in Procs :
       (req[p].kind = "retrieve" /\ "miss" \in events[p] /\ pc[p] = "done")
         => /\ resp[p] = Ok
            /\ "saved" \in events[p]
            /\ Cardinality(RowsOf(req[p].target, req[p].session)) = 1

C5_Witness ==
  \E p, q \in Procs :
    /\ p # q /\ pc[p] = "done" /\ pc[q] = "done"
    /\ req[p].kind = "retrieve" /\ req[q].kind = "retrieve"
    /\ req[p].target = req[q].target /\ req[p].session = req[q].session
    /\ "created" \in events[p]
    /\ {"miss", "conflict"} \subseteq events[q]

\* A worker of the given kinds writes the campaign row in this step.
SavesCampaign(p, kinds) ==
  pc[p] = "campaign_save" /\ pc'[p] = "done" /\ req[p].kind \in kinds

\* C6 (as claimed): of concurrent send requests for one campaign exactly one
\* performs the transition to sent and reports success; once one of them has,
\* no other send request writes status, sent_at and sent_count.
C6_OneSenderWins ==
  [][\A p \in Procs :
       SavesCampaign(p, {"send"})
         => ~ \E q \in Procs \ {p} :
                /\ req[q].kind = "send" /\ req[q].target = req[p].target
                /\ pc[q] = "done" /\ resp[q] = Ok
                /\ campaign[req[p].target].status = "sent"]_vars

\* C7: a send request for a campaign whose status is sent is answered
\* 400 'already sent' at once and the campaign row is left as it is.
C7_SendOfSentCampaignFails ==
  [][\A p \in Procs :
       (/\ pc[p] = "idle" /\ pc'[p] # "idle" /\ req'[p].kind = "send"
        /\ campaign[req'[p].target].status = "sent")
         => /\ pc'[p] = "done"
            /\ resp'[p] = BadRequest("already sent")
            /\ campaign' = campaign]_vars

C7_Witness ==
  \E p \in Procs :
    /\ pc[p] = "done" /\ req[p].kind = "send"
    /\ resp[p] = BadRequest("already sent")
    /\ campaign[req[p].target].status = "sent"
    /\ campaign[req[p].target].sent_count > 0

\* C8 (as claimed): once a campaign is sent, no step changes its status,
\* its sent_at or its sent_count.
C8_SentIsTerminal ==
  [][\A c \in Campaigns :
       campaign[c].status = "sent"
         => /\ campaign'[c].status = "sent"
            /\ campaign'[c].sent_at = campaign[c].sent_at
            /\ campaign'[c].sent_count = campaign[c].sent_count]_vars

\* C9 (as claimed): on every path that sends a campaign (API send, admin
\* send) the campaign is written as sent only while there is at least one
\* active confirmed subscriber, and never with sent_count = 0.
C9_NeverSentToNobody ==
  [][\A p \in Procs :
       SavesCampaign(p, {"send", "admin_send"})
         => /\ Recipients # {}
            /\ campaign'[req[p].target].sent_count > 0]_vars

\* C10 (as claimed): the write of a successful send request sets status
\* sent, sent_at and sent_count together, sent_count being the number of
\* active confirmed subscribers at that moment and, as the existence check
\* saw the same subscribers, at least 1.
C10_SentCountIsRecipients ==
  [][\A p \in Procs :
       SavesCampaign(p, {"send"})
         => /\ campaign'[req[p].target].status = "sent"
            /\ ~IsNull(campaign'[req[p].target].sent_at)
            /\ campaign'[req[p].target].sent_count = Cardinality(Recipients)
            /\ campaign'[req[p].target].sent_count >= 1]_vars

\* The worker that writes article a in this step, with no published_at in
\* its payload.
UpdatesWithoutPublishedAt(a) ==
  \A p \in Procs :
    pc[p] = "update_save" /\ pc'[p] = "done" /\ req[p].target = a
      => req[p].published_at = NotGiven

\* C11: an operation that puts an article into status published (creation
\* as published, API update or partial update, admin publish action) while
\* the article has no published_at and none is supplied leaves the article
\* published with a non-null published_at.
C11_PublishingStampsPublishedAt ==
  [][/\ \A a \in Articles :
          /\ article[a].status # "published"
          /\ article'[a].status = "published"
          /\ IsNull(article[a].published_at)
          /\ UpdatesWithoutPublishedAt(a)
          => ~IsNull(article'[a].published_at)
     /\ Len(created') > Len(created)
          /\ created'[Len(created')].status = "published"
          => ~IsNull(created'[Len(created')].published_at)]_vars

\* C12: published_at is set once: when it is non-null, a later operation
\* that sets status to published without supplying published_at (publishing
\* again, archived -> published, the admin action 'publish selected') leaves
\* it as it was.
C12_PublishedAtSetOnce ==
  [][\A a \in Articles :
       /\ ~IsNull(article[a].published_at)
       /\ article'[a].status = "published"
       /\ UpdatesWithoutPublishedAt(a)
       => article'[a].published_at = article[a].published_at]_vars

\* C13: in every reachable state, published_at is non-null exactly when the
\* article has had status published at some point of its history.
C13_PublishedAtIffEverPublished ==
  \A a \in Articles : ~IsNull(article[a].published_at) <=> ever[a]

\* The stored articles and the slugs they use.
Stored == {i \in 1..Len(created) : ~created[i].deleted}
UsedSlug(slug) == \E i \in Stored : created[i].slug = slug

\* The base slug when it is free, else the base with the smallest k >= 1
\* whose suffixed slug is free.
FirstFreeSlug(base) ==
  IF ~UsedSlug(base) THEN base
  ELSE LET k == CHOOSE n \in 1..(MaxArticles + 1) :
                  /\ ~UsedSlug(base \o <<"-">> \o Str(n))
                  /\ \A j \in 1..(n - 1) : UsedSlug(base \o <<"-">> \o Str(j))
       IN  base \o <<"-">> \o Str(k)

C15_SlugImmutable ==
  [][\A i \in 1..Len(created) :
       ~created[i].deleted /\ ~created'[i].deleted
         => created'[i].slug = created[i].slug]_vars

\* C16: two concurrent creations whose titles slugify identically both
\* complete without error, and the stored articles have distinct slugs.
C16_ConcurrentCreationsSucceed ==
  /\ \A p, q \in Procs :
       /\ p # q
       /\ req[p].kind = "create" /\ req[q].kind = "create"
       /\ Slugify(req[p].title[1]) = Slugify(req[q].title[1])
       /\ pc[p] = "done" /\ pc[q] = "done"
       => resp[p] = Created /\ resp[q] = Created
  /\ \A i, j \in Stored : i # j => created[i].slug # created[j].slug

\* The requester is not logged in, or is neither the author of stored
\* article i nor staff.
Outsider(u, i) ==
  u = "anon" \/ (u # created[i].author /\ u # "staff")

\* A worker takes an update, partial update or delete of a stored article
\* from an outsider: it answers with a refusal and the articles stay as
\* they are.
OutsiderRefused ==
  \A p \in Procs :
    /\ pc[p] = "idle"
    /\ req'[p].kind \in {"edit", "delete"}
    /\ ~created[req'[p].id].deleted
    /\ Outsider(req'[p].user, req'[p].id)
    => /\ pc'[p] = "done"
       /\ resp'[p].code \in {401, 403, 404}
       /\ created' = created

\* The articles a list or detail response shows: published ones only to
\* the anonymous user, published or own ones only to a non-staff user.
ShownIsAllowed ==
  \A p \in Procs :
    pc[p] = "done" /\ req[p].kind \in {"list", "detail"} /\ resp[p].code = 200
    => \A k \in 1..Len(resp[p].body) :
         LET row == resp[p].body[k]
         IN  /\ req[p].user = "anon" => row.status = "published"
             /\ req[p].user \in {"u1", "u2"}
                  => row.status = "published" \/ row.author = req[p].user

\* C17: an update, partial update or delete of an article by a user who is
\* unauthenticated, or authenticated but neither its author nor staff, is
\* refused and leaves the article unchanged; list and detail show the
\* anonymous user published articles only and a non-staff user published or
\* own articles only.
C17_OutsidersCannotWriteOrSeeDrafts ==
  []ShownIsAllowed /\ [][OutsiderRefused]_vars

\* Another user's edit of an author's article has been refused.
C17_Witness ==
  \E p \in Procs :
    /\ pc[p] = "done" /\ req[p].kind = "edit" /\ req[p].user = "u2"
    /\ resp[p] = Forbidden
    /\ ~created[req[p].id].deleted
    /\ created[req[p].id].author = "u1"

\* The step of worker p changes a category, a subscription or a campaign.
WritesStaffData(p) ==
  /\ pc'[p] # pc[p]
  /\ \/ newsletter' # newsletter
     \/ campaign' # campaign
     \/ category' # category

\* C18: every mutating endpoint on categories, newsletter subscriptions and
\* campaigns (create, update, delete, subscribe, confirm, unsubscribe,
\* resubscribe, send) changes state only when the requester is authenticated
\* staff.
C18_OnlyStaffMutates ==
  [][\A p \in Procs : WritesStaffData(p) => req'[p].user = "staff"]_vars

\* The endpoints of a subscriber.
SubscriberKinds ==
  {"subscribe", "newsletter_create", "confirm", "unsubscribe", "resubscribe"}

\* C18, amended: create, update, delete and send on categories and
\* campaigns, and update and delete of a newsletter subscription, change
\* state only when the requester is authenticated staff; creating a
\* subscription, subscribe, confirm, unsubscribe and resubscribe are open to
\* every requester and never answer with a refusal.
C18_OnlyStaffMutatesButSubscribers ==
  [][\A p \in Procs :
       /\ WritesStaffData(p) /\ req'[p].kind \notin SubscriberKinds
          => req'[p].user = "staff"
       /\ pc'[p] # pc[p] /\ req'[p].kind \in SubscriberKinds
          => resp'[p].code \notin {401, 403}]_vars

\* An author's send has been refused and an anonymous confirmation has
\* confirmed a subscription.
C18_Witness ==
  \E p, q \in Procs :
    /\ pc[p] = "done" /\ req[p].kind = "send" /\ req[p].user = "u1"
    /\ resp[p] = Forbidden
    /\ req[p].target \in DOMAIN campaign
    /\ campaign[req[p].target].status # "sent"
    /\ pc[q] = "done" /\ req[q].kind = "confirm" /\ req[q].user = "anon"
    /\ req[q].target = "n2"
    /\ resp[q] = Ok
    /\ "n2" \in DOMAIN newsletter
    /\ ~IsNull(newsletter["n2"].confirmed_at)

RankingKinds == {"featured", "trending", "breaking", "latest"}

\* C19: every article in the answer of a featured, trending, breaking or
\* latest query has status published, whoever asks (anonymous, an author
\* with drafts of their own, staff) and whatever is stored.
C19_RankingsOnlyPublished ==
  \A p \in Procs :
    (pc[p] = "done" /\ req[p].kind \in RankingKinds)
      => \A k \in DOMAIN resp[p].body :
           /\ resp[p].body[k] = Shown(resp[p].body[k].id)
           /\ resp[p].body[k].status = "published"

\* The author of a featured draft asks for the featured articles and is
\* given some.
C19_Witness ==
  \E p \in Procs :
    /\ pc[p] = "done" /\ req[p].kind = "featured" /\ req[p].user = "u1"
    /\ Len(resp[p].body) >= 1
    /\ \E i \in Live : /\ created[i].status = "draft" /\ created[i].is_featured
                       /\ created[i].author = "u1"

\* The published articles inside the window of the trending request of p.
Eligible(p) ==
  {i \in Live : /\ created[i].status = "published"
                /\ created[i].published_at # NullTime
                /\ created[i].published_at[1] >= now - req[p].days * HoursPerDay}

Listed(p) == {resp[p].body[k].id : k \in DOMAIN resp[p].body}

\* C20: for days >= 0 and limit >= 0 the trending query answers with at most
\* limit articles, as many as the window holds up to limit, each published
\* with published_at >= now - days, in non-increasing views_count order, and
\* no article of the window that is left out has more views than a listed one.
C20_TrendingTopLimit ==
  \A p \in Procs :
    (pc[p] = "done" /\ req[p].kind = "trending") =>
      LET body == resp[p].body
          n == Cardinality(Eligible(p))
      IN  /\ Len(body) <= req[p].limit
          /\ Len(body) = IF n < req[p].limit THEN n ELSE req[p].limit
          /\ Cardinality(Listed(p)) = Len(body)
          /\ Listed(p) \subseteq Eligible(p)
          /\ \A k \in DOMAIN body : body[k] = Shown(body[k].id)
          /\ \A j, k \in DOMAIN body :
               j < k => body[j].views_count >= body[k].views_count
          /\ \A i \in Eligible(p) \ Listed(p) : \A k \in DOMAIN body :
               created[i].views_count <= body[k].views_count

\* Two articles of different views_count are in the window and limit 1 keeps
\* one of them out.
C20_Witness ==
  \E p \in Procs :
    /\ pc[p] = "done" /\ req[p].kind = "trending" /\ req[p].limit = 1
    /\ Len(resp[p].body) = 1
    /\ \E i, j \in Eligible(p) : created[i].views_count < created[j].views_count

\* C21: the detail of an article that is not published (draft, review,
\* archived) is answered without creating an ArticleView row and without
\* touching views_count; a retrieval writes a row or a count only when the
\* article it loaded was published.
C21_UnpublishedNotTracked ==
  [][\A p \in Procs :
       /\ (/\ pc[p] = "idle" /\ req'[p].kind = "retrieve"
           /\ article[req'[p].target].status # "published")
            => /\ pc'[p] = "done" /\ resp'[p] = Ok
               /\ articleViews' = articleViews /\ article' = article
       /\ (/\ req[p].kind = "retrieve" /\ pc'[p] # pc[p]
           /\ (articleViews' # articleViews \/ article' # article))
            => inst[p].status = "published"]_vars

\* An article that was viewed while published is retrieved again as a draft,
\* review or archived article: the request is answered and nothing is counted.
C21_Witness ==
  \E p \in Procs :
    /\ pc[p] = "done" /\ req[p].kind = "retrieve" /\ resp[p] = Ok
    /\ events[p] = {}
    /\ article[req[p].target].status # "published"
    /\ article[req[p].target].views_count = 1
    /\ Cardinality(articleViews) = 1

\* C22 (as claimed): the step in which an increment_views request saves adds
\* exactly 1 to the stored views_count of its article and changes nothing
\* else: no ArticleView row, no other column, no other article.
C22_IncrementViewsAddsOne ==
  [][\A p \in Procs :
       (req[p].kind = "increment_views" /\ pc[p] = "save_views" /\ pc'[p] = "done")
         => /\ article'[req[p].target].views_count
                 = article[req[p].target].views_count + 1
            /\ article'[req[p].target].status = article[req[p].target].status
            /\ article'[req[p].target].published_at
                 = article[req[p].target].published_at
            /\ \A a \in Articles \ {req[p].target} : article'[a] = article[a]
            /\ articleViews' = articleViews]_vars

\* The frame alone: what the saving step of increment_views leaves untouched.
C22_FrameOnly ==
  [][\A p \in Procs :
       (req[p].kind = "increment_views" /\ pc[p] = "save_views" /\ pc'[p] = "done")
         => /\ article'[req[p].target].status = article[req[p].target].status
            /\ article'[req[p].target].published_at
                 = article[req[p].target].published_at
            /\ \A a \in Articles \ {req[p].target} : article'[a] = article[a]
            /\ articleViews' = articleViews]_vars

\* Completed subscriptions that stored a record for address e.
Subscribed(e) ==
  {p \in Procs : /\ pc[p] = "done" /\ req[p].target = e /\ resp[p] = Created
                 /\ req[p].kind \in {"subscribe", "newsletter_create"}}

\* C23: a subscribe request for an email that a Newsletter record already
\* bears when the request is validated is answered 400 and no record is
\* created or modified; no subscribe step changes an existing record; and
\* every email is borne by one record: the one present from the start or the
\* one stored by the single request that was answered 201.
C23_DuplicateEmailRejected ==
  /\ [][\A p \in Procs :
          /\ (/\ pc[p] = "idle" /\ req'[p].kind \in {"subscribe", "newsletter_create"}
              /\ req'[p].target \in DOMAIN newsletter)
               => /\ resp'[p] = BadRequest("email") /\ pc'[p] = "done"
                  /\ newsletter' = newsletter
          /\ \A e \in DOMAIN newsletter :
               e \in DOMAIN newsletter' /\ newsletter'[e] = newsletter[e]]_vars
  /\ [](\A e \in Addresses \cup Subs :
          /\ Cardinality(Subscribed(e)) + (IF e \in Subs THEN 1 ELSE 0)
               = (IF e \in DOMAIN newsletter THEN 1 ELSE 0))

\* One request has stored address n3 and a later request for n3 is answered
\* 400.
C23_Witness ==
  \E p, q \in Procs :
    /\ p # q
    /\ pc[p] = "done" /\ req[p].kind = "subscribe" /\ req[p].target = "n3"
    /\ resp[p] = Created
    /\ pc[q] = "done" /\ req[q].kind = "subscribe" /\ req[q].target = "n3"
    /\ resp[q] = BadRequest("email")
    /\ "n3" \in DOMAIN newsletter

\* The request of p is a campaign creation or update that carries a
\* scheduled_at not after the instant t.
SchedulesNotLater(r, t) ==
  /\ r.kind \in {"campaign_create", "campaign_update"}
  /\ r.scheduled_at # NotGiven
  /\ r.scheduled_at[1] # NullTime
  /\ r.scheduled_at[1][1] <= t

\* C24 (as claimed): a campaign creation or update whose scheduled_at is not
\* strictly in the future is answered 400 and leaves the campaigns as they
\* were, so no request makes a campaign scheduled with a scheduled_at that is
\* not after the time of that request.
C24_PastScheduleRejected ==
  [][\A p \in Procs :
       (pc[p] # "done" /\ pc'[p] = "done" /\ SchedulesNotLater(req'[p], now))
         => /\ resp'[p].code = 400
            /\ campaign' = campaign]_vars

\* The instance that the text request completed in this step by p hands to
\* Article.save: the stored columns, or those of a new article, with the
\* payload applied.
Handed(p) ==
  ApplyText(IF req'[p].kind = "text_create" THEN NewText ELSE text,
            Cleaned([f \in TextFields |-> req'[p][f]]))

\* Worker p completes in this step a text request that saves the article.
SavesText(p) ==
  /\ pc[p] = "idle" /\ pc'[p] = "done"
  /\ req'[p].kind \in {"text_create", "text_update"}
  /\ resp'[p].code \in {200, 201}

\* C25: a save with no excerpt and a non-empty content stores as excerpt the
\* first 497 characters of the content followed by '...' when the content is
\* longer than 500 characters, and the content itself otherwise; the stored
\* excerpt is then at most 500 characters long.
C25_ExcerptDerived ==
  [][\A p \in Procs :
       (SavesText(p) /\ Handed(p).excerpt = <<>> /\ Handed(p).content # <<>>)
         => /\ text'.content = Handed(p).content
            /\ text'.excerpt =
                 IF Len(text'.content) > 500
                 THEN [i \in 1..500 |-> IF i <= 497 THEN text'.content[i] ELSE "."]
                 ELSE text'.content
            /\ Len(text'.excerpt) <= 500]_vars

\* An article is created with a content of 501 characters and no excerpt: the
\* stored excerpt has 500 characters and ends with the dots.
C25_Witness ==
  \E p \in Procs :
    /\ pc[p] = "done" /\ req[p].kind = "text_create" /\ resp[p] = Created
    /\ req[p].excerpt = NotGiven
    /\ text # NoText
    /\ Len(text.content) = 501
    /\ Len(text.excerpt) = 500
    /\ text.excerpt[498] = "." /\ text.excerpt[497] = text.content[497]

\* The whitespace-separated tokens of a text, counted at their last character.
Tokens(c) ==
  Cardinality({i \in 1..Len(c) : c[i] # " " /\ (i = Len(c) \/ c[i + 1] = " ")})

\* m is word_count / 200 rounded to the nearest integer, a tie to the even one.
IsRounded(m, words) ==
  LET twice == 2 * (200 * m - words)
  IN  /\ twice <= 200 /\ -twice <= 200
      /\ (twice = 200 \/ -twice = 200) => m % 2 = 0

\* C26: whenever the stored content is not empty, at creation as after an
\* edit of the content, read_time is max(1, round(word_count / 200)) for the
\* whitespace-separated tokens of the stored content, rounding to the nearest
\* integer with ties to even; so read_time >= 1.
C26_ReadTime ==
  (text # NoText /\ text.content # <<>>)
    => LET words == Tokens(text.content)
       IN  /\ text.read_time >= 1
           /\ \E m \in 0..(words \div 200 + 1) :
                /\ IsRounded(m, words)
                /\ text.read_time = IF m < 1 THEN 1 ELSE m

\* An article created with 500 words (2.5 minutes, read_time 2) has its
\* content replaced by one of 100 words (0.5 minutes): read_time is 1.
C26_Witness ==
  \E p, q \in Procs :
    /\ pc[p] = "done" /\ req[p].kind = "text_create" /\ resp[p] = Created
    /\ Tokens(req[p].content[1]) = 500
    /\ pc[q] = "done" /\ req[q].kind = "text_update" /\ resp[q] = Ok
    /\ req[q].content # NotGiven
    /\ text # NoText
    /\ Tokens(text.content) = 100
    /\ text.read_time = 1

\* A tie that rounds to the even integer below: 500 words are read in 2
\* minutes.
C26_TieToEven ==
  \E p \in Procs :
    /\ pc[p] = "done" /\ req[p].kind = "text_create" /\ resp[p] = Created
    /\ text # NoText /\ Tokens(text.content) = 500 /\ text.read_time = 2

\* The length of the list of type t in the results, 0 when it is not there.
Found(results, t) == IF t \in DOMAIN results THEN Len(results[t]) ELSE 0

\* C27: a search whose query is empty or only whitespace is answered 400
\* without results; any other query is answered with the lists of exactly
\* the types that the type parameter selects, at most 10 articles and at most
\* 5 categories, 5 tags and 5 authors, and total_results is the sum of the
\* lengths of these lists.
C27_SearchCaps ==
  \A p \in Procs :
    (pc[p] = "done" /\ req[p].kind = "search") =>
      LET q == req[p].q[1]
          type == req[p].type[1]
      IN  IF \A i \in DOMAIN q : q[i] = " "
          THEN resp[p].code = 400 /\ resp[p].body = <<>>
          ELSE LET results == resp[p].body.results
               IN  /\ resp[p].code = 200
                   /\ DOMAIN results =
                        IF type = "all" THEN SearchTypes
                        ELSE {type} \cap SearchTypes
                   /\ Found(results, "articles") <= 10
                   /\ Found(results, "categories") <= 5
                   /\ Found(results, "tags") <= 5
                   /\ Found(results, "authors") <= 5
                   /\ resp[p].body.total_results =
                        Found(results, "articles") + Found(results, "categories")
                          + Found(results, "tags") + Found(results, "authors")

\* A search of every type for "t" on a site with more rows than each cap is
\* answered with 10 articles and 5 of each other type: 25 results.
C27_Witness ==
  \E p \in Procs :
    /\ pc[p] = "done" /\ req[p].kind = "search" /\ req[p].type = Given("all")
    /\ resp[p].code = 200
    /\ Len(created) > 10 /\ Len(category) > 5 /\ Len(tag) > 5 /\ Len(author) > 5
    /\ Len(resp[p].body.results["articles"]) = 10
    /\ Len(resp[p].body.results["tags"]) = 5
    /\ resp[p].body.total_results = 25

\* Completed requests of kind k on subscriber s.
Completed(k, s) ==
  {p \in Procs : pc[p] = "done" /\ req[p].kind = k /\ req[p].target = s}

\* C28 (as claimed): when a confirm and an unsubscribe of one subscriber have
\* both completed, in whatever interleaving, and nobody resubscribed, the
\* record is confirmed, inactive with unsubscribed_at set, and is not a
\* campaign recipient.
C28_ConfirmKeepsUnsubscribe ==
  \A s \in DOMAIN newsletter :
    (/\ Completed("confirm", s) # {} /\ Completed("unsubscribe", s) # {}
     /\ \A p \in Procs : ~(req[p].kind = "resubscribe" /\ req[p].target = s))
      => /\ ~IsNull(newsletter[s].confirmed_at)
         /\ ~newsletter[s].is_active
         /\ ~IsNull(newsletter[s].unsubscribed_at)
         /\ s \notin Recipients

\* A step in which worker p writes the subscriber it loaded for a request of
\* kind k.
SavesSubscriber(p, k) ==
  pc[p] = "newsletter_save" /\ pc'[p] = "done" /\ req[p].kind = k

Confirmed(row) == ~IsNull(row.confirmed_at)

\* C29: served one after another, a confirmation is permanent and idempotent:
\* a confirmed_at that is set is never changed or reset by any confirm,
\* unsubscribe or resubscribe, and the confirm that writes sets it and leaves
\* the subscription state alone. An unsubscribe makes the subscriber inactive
\* with unsubscribed_at set, a resubscribe makes it active with
\* unsubscribed_at cleared, so that the subscriber is a campaign recipient
\* exactly when it is confirmed and its last unsubscribe, if any, was followed
\* by a resubscribe.
C29_ConfirmationPermanent ==
  /\ [](\A s \in DOMAIN newsletter :
         /\ newsletter[s].is_active <=> IsNull(newsletter[s].unsubscribed_at)
         /\ s \in Recipients <=>
              Confirmed(newsletter[s]) /\ IsNull(newsletter[s].unsubscribed_at))
  /\ [][\A s \in DOMAIN newsletter :
         /\ s \in DOMAIN newsletter'
         /\ Confirmed(newsletter[s])
              => newsletter'[s].confirmed_at = newsletter[s].confirmed_at
         /\ \A p \in Procs :
              req[p].target = s =>
                /\ SavesSubscriber(p, "confirm")
                     => /\ Confirmed(newsletter'[s])
                        /\ newsletter'[s].is_active = newsletter[s].is_active
                        /\ newsletter'[s].unsubscribed_at
                             = newsletter[s].unsubscribed_at
                /\ SavesSubscriber(p, "unsubscribe")
                     => /\ ~newsletter'[s].is_active
                        /\ ~IsNull(newsletter'[s].unsubscribed_at)
                /\ SavesSubscriber(p, "resubscribe")
                     => /\ newsletter'[s].is_active
                        /\ IsNull(newsletter'[s].unsubscribed_at)]_vars

\* The subscriber that started unconfirmed has a completed confirm written at
\* time 1 and a completed unsubscribe: at time 2 confirmed_at is still time 1
\* and the subscriber is not a recipient.
C29_Witness ==
  /\ now = 2
  /\ "n2" \in DOMAIN newsletter
  /\ newsletter["n2"].confirmed_at = At(1)
  /\ ~newsletter["n2"].is_active
  /\ "n2" \notin Recipients
  /\ \E p, q \in Procs :
       /\ pc[p] = "done" /\ req[p].kind = "confirm" /\ req[p].target = "n2"
       /\ pc[q] = "done" /\ req[q].kind = "unsubscribe" /\ req[q].target = "n2"

\* The fields of an article that Article.save fills only when they are empty.
WriteOnce == {"excerpt", "meta_title", "meta_description"}

\* C30: an edit that saves the article and does not itself supply a derived
\* text field leaves that field as stored when it was already non-empty,
\* whatever the new title or content; read_time is recomputed from the new
\* content that the save stores whenever that content is not empty.
C30_DerivedTextWriteOnce ==
  [][\A p \in Procs :
       (SavesText(p) /\ req'[p].kind = "text_update")
         => /\ \A f \in WriteOnce :
                 (text[f] # <<>> /\ req'[p][f] = NotGiven) => text'[f] = text[f]
            /\ (req'[p].content # NotGiven /\ text'.content # <<>>)
                 => LET words == Tokens(text'.content)
                    IN  /\ text'.read_time >= 1
                        /\ \E m \in 0..(words \div WordsPerMinute + 1) :
                             /\ IsRounded(m, words)
                             /\ text'.read_time = IF m < 1 THEN 1 ELSE m]_vars

\* An edit replaced the title and the content: the stored excerpt and
\* meta_title are not the ones the new title and content would derive, and
\* read_time is the one of the new content.
C30_Witness ==
  /\ text # NoText
  /\ \E p \in Procs :
       /\ pc[p] = "done" /\ req[p].kind = "text_update" /\ resp[p].code = 200
       /\ req[p].title = Given(LongTitle)
       /\ req[p].content # NotGiven
  /\ text.title = LongTitle
  /\ text.excerpt # <<>> /\ text.excerpt # DeriveExcerpt(text.content)
  /\ text.meta_title # <<>>
  /\ text.meta_title # Prefix(text.title, MetaTitleLength)
  /\ text.meta_description # Prefix(DeriveExcerpt(text.content), MetaDescriptionLength)
  /\ text.read_time = ReadTime(text.content)

====
